---------------------------- MODULE Spec2Model ----------------------------
(***************************************************************************)
(* A model of the x402 autonomous-payment handler of USYC-Agent            *)
(* (src/agents/x402_handler.py), of the settlement wait of the Circle      *)
(* Gateway client it drives (src/agents/gateway_client.py) and of the      *)
(* event bus it publishes on (src/agents/event_bus.py).                    *)
(*                                                                         *)
(* One call of fetch_with_payment / pay_and_access is a coroutine.  Every  *)
(* action of the model is the code that runs between two suspension        *)
(* points (an await on network I/O or on asyncio.sleep); the resource      *)
(* server and the payment rail are the environment and answer              *)
(* nondeterministically.  Amounts are whole numbers of one USDC unit;      *)
(* times are whole seconds.                                                *)
(*                                                                         *)
(* Further components have a specification of their own over the same      *)
(* state: the payment-proof header codec and its verification (SpecCodec), *)
(* the guarded actions of the vault agent in demo mode                     *)
(* (src/agents/vault_agent.py, SpecVault), the subscriptions and           *)
(* deliveries of the event bus (SpecBus), handlers that call the bus while *)
(* an event is delivered (SpecReentrant), the history of the bus           *)
(* (SpecHistory), several calls on one handler (SpecConcurrent), a call    *)
(* whose caller passes headers (SpecReplay), a settlement wait with any    *)
(* timeout, under fair scheduling (SpecWait), the start and stop of an     *)
(* agent (src/agents/base_agent.py, SpecAgent) and the demo paywall of the *)
(* API server (src/api/server.py, SpecPaywall).                            *)
(***************************************************************************)
EXTENDS Integers, Sequences, FiniteSets, TLC

(***************************************************************************)
(* Program constants.                                                      *)
(***************************************************************************)
\* X402Handler.__init__: max_auto_payment default
max_auto_payment == 10
\* _execute_payment passes timeout=30.0 to wait_for_transfer_completion
timeout == 30
\* wait_for_transfer_completion: poll_interval default
poll_interval == 2
\* EventBus.__init__: _max_history
max_history == 1000
\* settings: MAX_DEPOSIT_AMOUNT, MAX_WITHDRAW_AMOUNT, COOLDOWN_SECONDS defaults
max_deposit_amount == 10000
max_withdraw_amount == 10000
cooldown_seconds == 60
\* VaultAgent.__init__: _demo_usdc_balance, in USDC
demo_usdc_start == 1000

(***************************************************************************)
(* Bounds of the model.                                                    *)
(***************************************************************************)
\* longest time (seconds) one poll of the rail may take to answer
MaxLatency == 1

\* coroutine slots: one handler call runs in each
Slots == {1}

\* how many times the clock is read at a later time than before
MaxTicks == 3

\* tasks that call the vault agent: one guarded action runs in each
Tasks == {1, 2}

\* coroutines that call one handler at a time: one call runs in each
Workers == {1, 2}

\* how many times one of several concurrent calls polls the rail
MaxPolls == 2

\* how many calls are made on the event bus
MaxBusCalls == 5

\* calls of start and stop made on the agent
MaxAgentCalls == 8

\* requests made to the demo paywall
MaxRequests == 3

\* how many events were published, to a bus without subscribers, before the
\* calls on its history begin
PriorPublishes == 998

\* the handlers components register
Handlers == {"h1", "h2", "h3"}

(***************************************************************************)
(* Inputs: what the resource server may answer.                            *)
(***************************************************************************)
\* float("nan"), which a server may send as its amount, among the amounts
\* (numbers of whole units); Gt and Plus give it the arithmetic of a float
nan == -1000000

\* a > b on floats: false when either is nan
Gt(a, b) == a # nan /\ b # nan /\ a > b

\* a + b on floats: nan when either is nan
Plus(a, b) == IF a = nan \/ b = nan THEN nan ELSE a + b

\* amounts a server may demand: negative, zero, small, the ceiling, above it
AmountValues == {-1, 0, 1, max_auto_payment, max_auto_payment + 1}

\* a textual number field: absent (or empty), not a number, or a number
NumField ==
    {[tag |-> "absent", val |-> 0], [tag |-> "bad", val |-> 0]}
        \cup {[tag |-> "num", val |-> a] : a \in AmountValues}

AbsentNum == [tag |-> "absent", val |-> 0]

\* recipient addresses; "" is a missing address
HeaderAddresses == {"", "0xABCtest"}
BodyAddresses == {"", "0xBODYaddr"}

\* the response body: not a JSON object, or an object with these keys
NoBody == [isDict |-> FALSE, payment_required |-> FALSE,
           amount |-> AbsentNum, recipient |-> ""]

Bodies ==
    {NoBody}
        \cup {[isDict |-> TRUE, payment_required |-> FALSE,
               amount |-> AbsentNum, recipient |-> ""]}
        \cup [isDict : {TRUE}, payment_required : {TRUE},
              amount : NumField, recipient : BodyAddresses]

Statuses == {200, 402, 500}

\* A response: status, the X-Payment-Required marker, X-Payment-Amount,
\* X-Payment-Address and the body.  The address header is varied only when
\* the amount header is there (the code reads it in no other case).
Responses ==
    {r \in [status : Statuses, marker : BOOLEAN, hAmount : NumField,
            hAddress : HeaderAddresses, body : Bodies] :
        r.hAmount.tag = "absent" => r.hAddress = ""}

\* the answers to the retried request: only the status is read afterwards
RetryResponses ==
    {r \in Responses : ~r.marker /\ r.hAmount.tag = "absent" /\ r.body = NoBody}

(***************************************************************************)
(* Payment Requirement Parser.                                             *)
(***************************************************************************)
\* a check that looks at the status only
Is402Response_status_only(status, marker) == status = 402

\* X402Handler._is_402_response
Is402Response(status, marker) ==
    IF status = 402 THEN TRUE ELSE marker

NoRequirement == [kind |-> "none", amount |-> 0, recipient_address |-> "",
                  source |-> "none"]

\* float(x) of a present field; ValueError on text that is no number
ParseError == [kind |-> "ValueError", amount |-> 0, recipient_address |-> "",
               source |-> "none"]

\* a parser that takes the recipient of the body when the headers name none
from_headers_with_body_address(r) ==
    IF r.hAmount.tag = "bad" THEN ParseError
    ELSE [kind |-> "requirement",
          amount |-> r.hAmount.val,
          recipient_address |-> IF r.hAddress = "" /\ r.body.isDict
                                THEN r.body.recipient ELSE r.hAddress,
          source |-> "headers"]

\* PaymentRequirement.from_headers: amount and address from the headers only
from_headers(r) ==
    IF r.hAmount.tag = "bad" THEN ParseError
    ELSE [kind |-> "requirement",
          amount |-> r.hAmount.val,
          recipient_address |-> r.hAddress,
          source |-> "headers"]

\* PaymentRequirement.from_json_body: amount defaults to 0, recipient to ""
from_json_body(b) ==
    IF b.amount.tag = "bad" THEN ParseError
    ELSE [kind |-> "requirement",
          amount |-> IF b.amount.tag = "num" THEN b.amount.val ELSE 0,
          recipient_address |-> b.recipient,
          source |-> "body"]

\* X402Handler._parse_payment_requirement
\* (headers.get("X-Payment-Amount") is falsy when absent or empty)
parse_payment_requirement(r) ==
    IF ~Is402Response(r.status, r.marker) THEN NoRequirement
    ELSE IF r.hAmount.tag # "absent" THEN from_headers(r)
    ELSE IF r.body.isDict /\ r.body.payment_required THEN from_json_body(r.body)
    ELSE NoRequirement


(***************************************************************************)
(* State.                                                                  *)
(***************************************************************************)
VARIABLES
    call,             \* per coroutine slot: the locals of one handler call
    calls_started,    \* number of handler calls started so far
    payment_history,  \* X402Handler._payment_history
    event_history,    \* EventBus._event_history
    transfers,        \* the rail's transfers, indexed by transfer id
    codec,            \* a proof on its way through the Payment Proof Codec
    now,              \* what time.time() returns, in whole seconds
    ticks,            \* how many times the clock has advanced
    last_action_time, \* VaultAgent._last_action_time
    demo_balance,     \* VaultAgent._demo_balance (vault shares)
    demo_usdc_balance,\* VaultAgent._demo_usdc_balance
    vault,            \* per task: the locals of one guarded action
    vault_log,        \* what the guarded actions did, in order
    subscribers,      \* EventBus._subscribers
    delivery,         \* the publish call in progress: its event and position
    invoked,          \* the handler calls made, in order, and how they ended
    publishes,        \* the publish calls made, in order, and how they ended
    bus_calls,        \* calls made on the bus since the initial state
    bus_log,          \* the calls other than publish and get_history, in order
    history_read,     \* the last call of get_history and what it returned
    wait,             \* one call of wait_for_transfer_completion: its locals
    agent,            \* BaseAgent._running and the start and stop calls
    paywall           \* the demo paywall: _paywall_payments and its requests

vars == <<call, calls_started, payment_history, event_history, transfers,
          codec, now, ticks, last_action_time, demo_balance,
          demo_usdc_balance, vault, vault_log, subscribers, delivery,
          invoked, publishes, bus_calls, bus_log, history_read, wait,
          agent, paywall>>

\* the handler, its history, the event bus and the rail
handler_vars ==
    <<call, calls_started, payment_history, event_history, transfers>>

\* the vault agent and the clock it reads
vault_vars ==
    <<now, ticks, last_action_time, demo_balance, demo_usdc_balance, vault,
      vault_log>>

\* the subscribers of the event bus and its deliveries
bus_vars ==
    <<subscribers, delivery, invoked, publishes, bus_calls, bus_log,
      history_read>>

\* the components followed on their own
standalone_vars == <<wait, agent, paywall>>

\* what no action of the handler or of the rail touches
beyond_handler == <<codec, vault_vars, bus_vars, standalone_vars>>

\* what no step of the codec touches
beyond_codec == <<handler_vars, vault_vars, bus_vars, standalone_vars>>

\* what no action of the vault agent touches (it publishes on the bus)
beyond_vault ==
    <<call, calls_started, payment_history, transfers, codec, bus_vars,
      standalone_vars>>

\* what no action of the event bus touches
beyond_bus ==
    <<call, calls_started, payment_history, transfers, codec, vault_vars,
      standalone_vars>>

\* what no step of a settlement wait followed on its own touches
beyond_wait ==
    <<handler_vars, codec, vault_vars, bus_vars, agent, paywall>>

\* what no call of start or stop touches (they publish on the bus)
beyond_agent ==
    <<call, calls_started, payment_history, transfers, codec, vault_vars,
      bus_vars, wait, paywall>>

\* what no request to the demo paywall touches
beyond_paywall == <<handler_vars, codec, vault_vars, bus_vars, wait, agent>>

\* get_history was not called yet
NoRead == [called |-> FALSE, event_type |-> "", limit |-> 0,
           history |-> << >>, events |-> << >>]

\* no publish is in progress
IdleDelivery ==
    [active |-> FALSE,
     event |-> [event_type |-> "", event_id |-> 0, source_agent |-> ""],
     idx |-> 0]

\* no proof is on its way
IdleCodec == [pc |-> "idle"]

\* balances are kept in thousandths of a USDC (the contract's unit is a
\* millionth: usdc_decimals = 6)
usdc_unit == 1000

\* a task before its guarded action
IdleTask ==
    [pc |-> "idle", action |-> "", amount |-> 0,
     result |-> [kind |-> "pending", status |-> 0, exc |-> "", msg |-> ""]]

NoHash == [kind |-> "none", id |-> 0]

NoProof == [transfer_id |-> 0, tx_hash |-> NoHash, amount |-> 0,
            payer_address |-> ""]

Pending == [kind |-> "pending", status |-> 0, exc |-> "", msg |-> ""]

\* Header values: plain text, the token of a proof (proof.to_header()), a
\* transaction hash.
HeaderText(t) == [kind |-> "text", text |-> t, proof |-> NoProof, hash |-> NoHash]

HeaderProof(p) == [kind |-> "proof", text |-> "", proof |-> p, hash |-> NoHash]

HeaderHash(h) == [kind |-> "hash", text |-> "", proof |-> NoProof, hash |-> h]

\* the `headers` argument of a call: None, or a mapping of names to values
NoHeaders == [given |-> FALSE, map |-> [n \in {} |-> HeaderText("")]]

\* the arguments of fetch_with_payment the model follows
CallArgs(headers) ==
    [method |-> "GET", url |-> "http://resource", json_data |-> "None",
     headers |-> headers]

\* a copy that is the caller's mapping itself
copy_headers_aliasing(headers) ==
    [map |-> headers.map, alias |-> headers.given]

\* request_headers = headers.copy() if headers else {} (337): a mapping of
\* its own, which no later assignment shares with the caller
copy_headers(headers) == [map |-> headers.map, alias |-> FALSE]

\* mapping[name] = value
SetHeader(map, name, value) ==
    [n \in DOMAIN map \cup {name} |-> IF n = name THEN value ELSE map[n]]

\* a slot before its first call
IdleCall ==
    [pc |-> "idle", entry |-> "fetch_with_payment", auto_pay |-> TRUE,
     args |-> CallArgs(NoHeaders), caller_headers |-> NoHeaders,
     request_headers |-> [map |-> NoHeaders.map, alias |-> FALSE],
     callNo |-> 0, requirement |-> NoRequirement, transfer_id |-> 0,
     elapsed |-> 0, requests |-> << >>, creates |-> 0, polls |-> 0,
     offer |-> "none", trace |-> << >>, fetched |-> Pending,
     result |-> Pending]

Entries == {"fetch_with_payment", "pay_and_access"}

(***************************************************************************)
(* How a call ends.                                                        *)
(***************************************************************************)
Returned(status) ==
    [kind |-> "return", status |-> status, exc |-> "", msg |-> ""]

Raised(exc, msg) ==
    [kind |-> "raise", status |-> 0, exc |-> exc, msg |-> msg]

\* pay_and_access without its check for a 402 after the retry
pay_and_access_without_402_check(res) ==
    IF res.kind # "return" THEN res
    ELSE IF res.status >= 400
        THEN Raised("X402PaymentError", "Request failed with status")
    ELSE res

\* X402Handler.pay_and_access: what it makes of fetch_with_payment's outcome
pay_and_access(res) ==
    IF res.kind # "return" THEN res
    ELSE IF res.status = 402
        THEN Raised("X402PaymentError", "Payment was made but access still denied")
    ELSE IF res.status >= 400
        THEN Raised("X402PaymentError", "Request failed with status")
    ELSE res

\* The call record of a call whose fetch_with_payment ended with res:
\* fetched is fetch_with_payment's own outcome, result what the entry point
\* the caller used hands back.
Ended(cl, trace, res) ==
    [cl EXCEPT !.pc = "done",
               !.trace = trace,
               !.fetched = res,
               !.result = IF cl.entry = "pay_and_access"
                            THEN pay_and_access(res) ELSE res]

(***************************************************************************)
(* Event bus: publish appends to the bounded history.  Errors of           *)
(* subscribed handlers are caught inside publish, so publish always        *)
(* returns to the publisher.                                               *)
(***************************************************************************)
\* a history that keeps its oldest entries once it is full
publish_keeps_oldest(history, event) ==
    LET h == Append(history, event)
    IN IF Len(h) > max_history
       THEN SubSeq(h, 1, max_history)
       ELSE h

\* EventBus.publish, the history part
publish(history, event) ==
    LET h == Append(history, event)
    IN IF Len(h) > max_history
       THEN SubSeq(h, Len(h) - max_history + 1, Len(h))
       ELSE h

\* the Event objects _execute_payment builds
PaymentEvent(event_type, cl, req, tid, hash) ==
    [event_type |-> event_type, source_agent |-> "X402Handler",
     type |-> "x402_payment", amount |-> req.amount,
     recipient |-> req.recipient_address, transfer_id |-> tid,
     tx_hash |-> hash, callNo |-> cl.callNo]

(***************************************************************************)
(* Guardrail and settlement wait.                                          *)
(***************************************************************************)
\* the guardrail with the ceiling off by one
ExceedsMax_off_by_one(amount) == Gt(amount, max_auto_payment + 1)

\* _execute_payment: the max auto-payment guardrail
ExceedsMax(amount) == Gt(amount, max_auto_payment)

\* the loop returning the transfer when the timeout elapses
wait_step_timeout_returns(status, elapsed) ==
    IF status = "complete" THEN "return"
    ELSE IF status = "failed" THEN "raise_failed"
    ELSE IF elapsed >= timeout THEN "return"
    ELSE "sleep"

\* the loop taking every settled transfer, failed ones too, as completed
wait_step_failed_returns(status, elapsed) ==
    IF status = "complete" \/ status = "failed" THEN "return"
    ELSE IF elapsed >= timeout THEN "raise_timeout"
    ELSE "sleep"

\* the loop with > for >= in the timeout test
wait_step_timeout_strict(status, elapsed) ==
    IF status = "complete" THEN "return"
    ELSE IF status = "failed" THEN "raise_failed"
    ELSE IF elapsed > timeout THEN "raise_timeout"
    ELSE "sleep"

\* the loop without its check for a failed transfer
wait_step_without_failed(status, elapsed) ==
    IF status = "complete" THEN "return"
    ELSE IF elapsed >= timeout THEN "raise_timeout"
    ELSE "sleep"

\* the loop without its timeout test
wait_decision_without_timeout(status, elapsed, limit) ==
    IF status = "complete" THEN "return"
    ELSE IF status = "failed" THEN "raise_failed"
    ELSE "sleep"

\* one turn of the loop of wait_for_transfer_completion(transfer_id,
\* timeout=limit), after a poll that returned `status` with `elapsed`
\* seconds gone since the wait began (406-415)
wait_decision(status, elapsed, limit) ==
    IF status = "complete" THEN "return"
    ELSE IF status = "failed" THEN "raise_failed"
    ELSE IF elapsed >= limit THEN "raise_timeout"
    ELSE "sleep"

\* the turn of the loop in the wait the handler starts (timeout=30.0)
wait_step(status, elapsed) == wait_decision(status, elapsed, timeout)

\* a proof that always falls back to the hash derived from the transfer id
proof_tx_hash_always_fallback(transfer, tid) ==
    [kind |-> "fallback", id |-> tid]

\* completed_transfer.tx_hash or f"0x{transfer.id}"
proof_tx_hash(transfer, tid) ==
    IF transfer.hasHash THEN [kind |-> "rail", id |-> tid]
    ELSE [kind |-> "fallback", id |-> tid]

\* a history that puts the newest payment first
record_payment_newest_first(history, req, tid, hash, callNo) ==
    <<[amount |-> req.amount,
       recipient_address |-> req.recipient_address,
       transfer_id |-> tid, tx_hash |-> hash, callNo |-> callNo]>>
        \o history

\* a history in which the newest payment takes the place of the others
record_payment_overwrites(history, req, tid, hash, callNo) ==
    <<[amount |-> req.amount,
       recipient_address |-> req.recipient_address,
       transfer_id |-> tid, tx_hash |-> hash, callNo |-> callNo]>>

\* self._payment_history.append({...})
record_payment(history, req, tid, hash, callNo) ==
    Append(history,
           [amount |-> req.amount,
            recipient_address |-> req.recipient_address,
            transfer_id |-> tid, tx_hash |-> hash, callNo |-> callNo])

RECURSIVE SumAmounts(_)
SumAmounts(history) ==
    IF history = << >> THEN 0
    ELSE Plus(history[1].amount, SumAmounts(Tail(history)))

\* get_payment_history (425-427) and get_total_spent (429-431)
get_payment_history(history) == history

get_total_spent(history) == SumAmounts(history)

(***************************************************************************)
(* Initial state.                                                          *)
(***************************************************************************)
\* no wait is in progress
IdleWait ==
    [pc |-> "idle", timeout |-> 0, poll_interval |-> 0, elapsed |-> 0,
     polls |-> 0, status |-> "pending", outcome |-> "none"]

\* BaseAgent.__init__: not running, no call of start or stop in progress
InitAgent ==
    [running |-> FALSE, pc |-> [t \in Tasks |-> "idle"], calls |-> 0]

\* the server's module state: _paywall_payments = {}, no request served
InitPaywall ==
    [payments |-> [k \in {} |-> [amount |-> 0, payer |-> 0, timestamp |-> 0]],
     log |-> << >>]

InitStandalone ==
    /\ wait = IdleWait
    /\ agent = InitAgent
    /\ paywall = InitPaywall

\* X402Handler.__init__, EventBus.__init__ and the rail
InitHandler ==
    /\ call = [c \in Slots |-> IdleCall]
    /\ calls_started = 0
    /\ payment_history = << >>
    /\ event_history = << >>
    /\ transfers = << >>

\* VaultAgent.__init__ in demo mode: no cooldown recorded, no shares, 1000
\* USDC.  The clock shows a time at which no cooldown can be pending.
InitVaultAgent ==
    /\ now = cooldown_seconds
    /\ ticks = 0
    /\ last_action_time = [a \in {} |-> 0]
    /\ demo_balance = 0
    /\ demo_usdc_balance = demo_usdc_start * usdc_unit
    /\ vault = [s \in Tasks |-> IdleTask]
    /\ vault_log = << >>

\* EventBus.__init__: no subscribers (the history is the handler's)
InitEventBus ==
    /\ subscribers = [t \in {} |-> << >>]
    /\ delivery = IdleDelivery
    /\ invoked = << >>
    /\ publishes = << >>
    /\ bus_calls = 0
    /\ bus_log = << >>
    /\ history_read = NoRead

Init ==
    /\ InitHandler
    /\ codec = IdleCodec
    /\ InitVaultAgent
    /\ InitStandalone
    /\ InitEventBus

(***************************************************************************)
(* Actions of the handler.                                                 *)
(***************************************************************************)
FirstRequest == [has_proof |-> FALSE, proof |-> NoProof, tx_hash |-> NoHash]

\* session.request(method, url, headers=request_headers, json=json_data),
\* with what is attached to it
Request(args, headers, attached) ==
    [method |-> args.method, url |-> args.url, json_data |-> args.json_data,
     headers |-> headers, has_proof |-> attached.has_proof,
     proof |-> attached.proof, tx_hash |-> attached.tx_hash]

\* fetch_with_payment up to the first session.request (lines 336-345)
Start(c, entry, auto_pay, headers) ==
    /\ call[c].pc = "idle"
    /\ calls_started' = calls_started + 1
    /\ call' = [call EXCEPT ![c] =
                   [IdleCall EXCEPT !.pc = "request1",
                                    !.entry = entry,
                                    !.auto_pay = auto_pay,
                                    !.args = CallArgs(headers),
                                    !.caller_headers = headers,
                                    !.request_headers = copy_headers(headers),
                                    !.callNo = calls_started + 1,
                                    !.requests =
                                        <<Request(CallArgs(headers),
                                                  copy_headers(headers).map,
                                                  FirstRequest)>>,
                                    !.trace = <<"request1">>]]
    /\ UNCHANGED <<payment_history, event_history, transfers>>
    /\ UNCHANGED beyond_handler

\* the first request fails in the network: the error propagates
Request1Fails(c) ==
    /\ call[c].pc = "request1"
    /\ call' = [call EXCEPT ![c] =
                   Ended(call[c], Append(call[c].trace, "request1_failed"),
                         Raised("ClientError", "network"))]
    /\ UNCHANGED <<calls_started, payment_history, event_history, transfers>>
    /\ UNCHANGED beyond_handler

\* Whether a response carries, in its headers or in its JSON body, an amount
\* that is a number together with a recipient address.  Kept beside the call
\* to state what the response offered; the handler never reads it.
Usable(r) ==
    \/ r.hAmount.tag = "num" /\ r.hAddress # ""
    \/ r.body.isDict /\ r.body.amount.tag = "num" /\ r.body.recipient # ""

\* what a response offers: no payment demand, a usable one, an unusable one
Offer(r) ==
    IF ~(r.status = 402 \/ r.marker) THEN "none"
    ELSE IF Usable(r) THEN "usable"
    ELSE "unusable"

\* The first response arrives (lines 346-360): not payment-required, or
\* auto_pay off: return it.  Otherwise parse (362-367), check the guardrail
\* (244-248), publish the initiated event (250-260) and send the
\* create-transfer to the rail (262-272).
Response1(c, r) ==
    /\ call[c].pc = "request1"
    /\ LET cl == call[c]
           cu == [call[c] EXCEPT !.offer = Offer(r)]
           t1 == Append(cl.trace, "response1")
           req == parse_payment_requirement(r)
       IN IF ~Is402Response(r.status, r.marker) \/ ~cl.auto_pay
          THEN /\ call' = [call EXCEPT ![c] = Ended(cu, t1, Returned(r.status))]
               /\ UNCHANGED <<event_history, transfers>>
          ELSE IF req.kind = "ValueError"
          THEN /\ call' = [call EXCEPT ![c] =
                              Ended(cu, t1, Raised("ValueError", "float"))]
               /\ UNCHANGED <<event_history, transfers>>
          ELSE IF req.kind = "none"
          THEN /\ call' = [call EXCEPT ![c] =
                              Ended(cu, t1, Raised("X402PaymentError",
                                  "could not parse payment requirements"))]
               /\ UNCHANGED <<event_history, transfers>>
          ELSE IF ExceedsMax(req.amount)
          THEN /\ call' = [call EXCEPT ![c] =
                              Ended([cu EXCEPT !.requirement = req],
                                    t1 \o <<"parsed">>,
                                    Raised("X402PaymentError",
                                           "exceeds max auto-payment"))]
               /\ UNCHANGED <<event_history, transfers>>
          ELSE /\ event_history' =
                      publish(event_history,
                              PaymentEvent("DEPOSIT_INITIATED", cl, req, 0, NoHash))
               /\ call' = [call EXCEPT ![c] =
                              [cu EXCEPT !.pc = "creating",
                                         !.requirement = req,
                                         !.creates = @ + 1,
                                         !.trace = t1 \o <<"parsed", "guard_ok",
                                                           "attempt_published",
                                                           "create_sent">>]]
               /\ UNCHANGED transfers
    /\ UNCHANGED <<calls_started, payment_history>>
    /\ UNCHANGED beyond_handler

\* The rail rejects the create-transfer (an API error such as insufficient
\* balance): CircleGatewayError leaves _execute_payment and the call.
CreateRejected(c) ==
    /\ call[c].pc = "creating"
    /\ call' = [call EXCEPT ![c] =
                   Ended(call[c], Append(call[c].trace, "create_rejected"),
                         Raised("CircleGatewayError", "API Error"))]
    /\ UNCHANGED <<calls_started, payment_history, event_history, transfers>>
    /\ UNCHANGED beyond_handler

\* a new transfer as the rail creates it, already polled once
NewTransfer(cl) ==
    [status |-> "pending", hasHash |-> FALSE,
     destination_address |-> cl.requirement.recipient_address,
     amount |-> cl.requirement.amount, callNo |-> cl.callNo, polls |-> 1]

\* The rail accepts the create-transfer (line 263 returns); the settlement
\* wait begins: start_time is read and the first poll is sent (401-404).
CreateAccepted(c) ==
    /\ call[c].pc = "creating"
    /\ transfers' = Append(transfers, NewTransfer(call[c]))
    /\ call' = [call EXCEPT ![c] =
                   [call[c] EXCEPT !.pc = "polling",
                                   !.transfer_id = Len(transfers) + 1,
                                   !.elapsed = 0,
                                   !.polls = @ + 1,
                                   !.trace = @ \o <<"create_ok", "poll_sent">>]]
    /\ UNCHANGED <<calls_started, payment_history, event_history>>
    /\ UNCHANGED beyond_handler

PollLabel(status) ==
    IF status = "complete" THEN "poll_complete"
    ELSE IF status = "failed" THEN "poll_failed"
    ELSE "poll_pending"

\* a proof that deducts a fee from the demanded amount
make_proof_net_of_fee(req, tid, hash) ==
    [transfer_id |-> tid, tx_hash |-> hash, amount |-> req.amount - 1,
     payer_address |-> "0xPayer"]

\* the proof built once the wait has returned (280-288): the amount is the
\* requirement's, the hash the one proof_tx_hash chose
make_proof(req, tid, hash) ==
    [transfer_id |-> tid, tx_hash |-> hash, amount |-> req.amount,
     payer_address |-> "0xPayer"]

\* the retried request: the original plus the two payment headers (376-384)
RetryRequest(proof) ==
    [has_proof |-> TRUE, proof |-> proof, tx_hash |-> proof.tx_hash]

\* A poll is answered lat seconds after it was sent, with the transfer's
\* current status (404-415).  complete: the wait returns, the proof is
\* built, the payment recorded, the completed event published (280-311) and
\* the request retried with the proof (376-384).  failed: CircleGatewayError.
\* pending: TimeoutError once the timeout has elapsed, else sleep.
PollAnswered(c, lat) ==
    /\ call[c].pc = "polling"
    /\ LET cl == call[c]
           tid == cl.transfer_id
           t == transfers[tid]
           el == cl.elapsed + lat
           step == wait_step(t.status, el)
           tr == Append(cl.trace, PollLabel(t.status))
           hash == proof_tx_hash(t, tid)
           proof == make_proof(cl.requirement, tid, hash)
           sent == SetHeader(SetHeader(cl.request_headers.map,
                                       "X-Payment-Proof", HeaderProof(proof)),
                             "X-Payment-TxHash", HeaderHash(proof.tx_hash))
       IN IF step = "return"
          THEN /\ payment_history' =
                      record_payment(payment_history, cl.requirement, tid,
                                     hash, cl.callNo)
               /\ event_history' =
                      publish(event_history,
                              PaymentEvent("DEPOSIT_COMPLETED", cl,
                                           cl.requirement, tid, hash))
               /\ call' = [call EXCEPT ![c] =
                              [cl EXCEPT !.pc = "request2",
                                         !.elapsed = el,
                                         !.request_headers.map = sent,
                                         !.caller_headers =
                                             IF cl.request_headers.alias
                                             THEN [given |-> TRUE, map |-> sent]
                                             ELSE @,
                                         !.requests =
                                             Append(@, Request(cl.args, sent,
                                                        RetryRequest(proof))),
                                         !.trace = tr \o <<"wait_returned",
                                                           "history_appended",
                                                           "completed_published",
                                                           "request2">>]]
          ELSE IF step = "raise_failed"
          THEN /\ call' = [call EXCEPT ![c] =
                              Ended([cl EXCEPT !.elapsed = el],
                                    Append(tr, "wait_raised_failed"),
                                    Raised("CircleGatewayError", "Transfer failed"))]
               /\ UNCHANGED <<payment_history, event_history>>
          ELSE IF step = "raise_timeout"
          THEN /\ call' = [call EXCEPT ![c] =
                              Ended([cl EXCEPT !.elapsed = el],
                                    Append(tr, "wait_raised_timeout"),
                                    Raised("TimeoutError",
                                           "did not complete within timeout"))]
               /\ UNCHANGED <<payment_history, event_history>>
          ELSE /\ call' = [call EXCEPT ![c] =
                              [cl EXCEPT !.pc = "sleeping",
                                         !.elapsed = el,
                                         !.trace = Append(tr, "sleep")]]
               /\ UNCHANGED <<payment_history, event_history>>
    /\ UNCHANGED <<calls_started, transfers>>
    /\ UNCHANGED beyond_handler

\* a poll is answered with an API error: CircleGatewayError from _request
PollErrors(c) ==
    /\ call[c].pc = "polling"
    /\ call' = [call EXCEPT ![c] =
                   Ended(call[c], Append(call[c].trace, "poll_error"),
                         Raised("CircleGatewayError", "API Error"))]
    /\ UNCHANGED <<calls_started, payment_history, event_history, transfers>>
    /\ UNCHANGED beyond_handler

\* asyncio.sleep(poll_interval) returns and the next poll is sent (415, 404)
SleepDone(c) ==
    /\ call[c].pc = "sleeping"
    /\ transfers' = [transfers EXCEPT ![call[c].transfer_id].polls = @ + 1]
    /\ call' = [call EXCEPT ![c] =
                   [call[c] EXCEPT !.pc = "polling",
                                   !.elapsed = @ + poll_interval,
                                   !.polls = @ + 1,
                                   !.trace = Append(@, "poll_sent")]]
    /\ UNCHANGED <<calls_started, payment_history, event_history>>
    /\ UNCHANGED beyond_handler

\* the retried request fails in the network
Request2Fails(c) ==
    /\ call[c].pc = "request2"
    /\ call' = [call EXCEPT ![c] =
                   Ended(call[c], Append(call[c].trace, "request2_failed"),
                         Raised("ClientError", "network"))]
    /\ UNCHANGED <<calls_started, payment_history, event_history, transfers>>
    /\ UNCHANGED beyond_handler

\* a handler that takes a 402 on the retry as a new payment demand
retry_outcome_pays_again(cl, r) ==
    IF Is402Response(r.status, r.marker)
    THEN [cl EXCEPT !.pc = "request1", !.trace = Append(@, "response2")]
    ELSE Ended(cl, Append(cl.trace, "response2"), Returned(r.status))

\* VaultAgent.fetch_with_auto_payment: the payment_made flag of its result
\* (vault_agent.py 367)
payment_made(status, auto_pay) == status # 402 /\ auto_pay

\* fetch_with_payment after the retried request was answered (385-394):
\* the answer is returned whatever it is
retry_outcome(cl, r) ==
    Ended(cl, Append(cl.trace, "response2"), Returned(r.status))

\* the answer to the retried request arrives
Response2(c, r) ==
    /\ call[c].pc = "request2"
    /\ call' = [call EXCEPT ![c] = retry_outcome(call[c], r)]
    /\ UNCHANGED <<calls_started, payment_history, event_history, transfers>>
    /\ UNCHANGED beyond_handler

(***************************************************************************)
(* The rail settles a pending transfer, whether or not the handler still   *)
(* waits for it.                                                           *)
(***************************************************************************)
RailSettles(tid, status, hasHash) ==
    /\ transfers[tid].status = "pending"
    /\ transfers' = [transfers EXCEPT ![tid].status = status,
                                      ![tid].hasHash = hasHash]
    /\ UNCHANGED <<call, calls_started, payment_history, event_history>>
    /\ UNCHANGED beyond_handler

Latencies == 0..MaxLatency

Next ==
    \/ \E c \in Slots, e \in Entries, a \in BOOLEAN : Start(c, e, a, NoHeaders)
    \/ \E c \in Slots : Request1Fails(c)
    \/ \E c \in Slots, r \in Responses : Response1(c, r)
    \/ \E c \in Slots : CreateRejected(c)
    \/ \E c \in Slots : CreateAccepted(c)
    \/ \E c \in Slots, lat \in Latencies : PollAnswered(c, lat)
    \/ \E c \in Slots : PollErrors(c)
    \/ \E c \in Slots : SleepDone(c)
    \/ \E c \in Slots : Request2Fails(c)
    \/ \E c \in Slots, r \in RetryResponses : Response2(c, r)
    \/ \E tid \in DOMAIN transfers : RailSettles(tid, "complete", TRUE)
    \/ \E tid \in DOMAIN transfers : RailSettles(tid, "complete", FALSE)
    \/ \E tid \in DOMAIN transfers : RailSettles(tid, "failed", FALSE)

Spec == Init /\ [][Next]_vars

(***************************************************************************)
(* Several calls of fetch_with_payment on one handler.  The calls are      *)
(* coroutines of one event loop: each runs from one await to the next      *)
(* without interruption, and at an await any other call may run.  The      *)
(* servers demand a payment in their headers or ask for none; the rail     *)
(* accepts every transfer, as the demo gateway does.                       *)
(***************************************************************************)
\* the amounts demanded here: a small one, the ceiling, and nan
ConcurrentAmounts == {1, max_auto_payment, nan}

ConcurrentResponses ==
    {[status |-> 200, marker |-> FALSE, hAmount |-> AbsentNum,
      hAddress |-> "", body |-> NoBody]}
        \cup {[status |-> 402, marker |-> FALSE,
               hAmount |-> [tag |-> "num", val |-> a],
               hAddress |-> "0xABCtest", body |-> NoBody] :
                  a \in ConcurrentAmounts}

InitConcurrent ==
    /\ call = [c \in Workers |-> IdleCall]
    /\ calls_started = 0
    /\ payment_history = << >>
    /\ event_history = << >>
    /\ transfers = << >>
    /\ codec = IdleCodec
    /\ InitVaultAgent
    /\ InitStandalone
    /\ InitEventBus

NextConcurrent ==
    \/ \E c \in Workers : Start(c, "fetch_with_payment", TRUE, NoHeaders)
    \/ \E c \in Workers, r \in ConcurrentResponses : Response1(c, r)
    \/ \E c \in Workers : CreateAccepted(c)
    \/ \E c \in Workers, lat \in Latencies : PollAnswered(c, lat)
    \/ \E c \in Workers : call[c].polls < MaxPolls /\ SleepDone(c)
    \/ \E c \in Workers, r \in RetryResponses : Response2(c, r)
    \/ \E tid \in DOMAIN transfers : RailSettles(tid, "complete", TRUE)
    \/ \E tid \in DOMAIN transfers : RailSettles(tid, "failed", FALSE)

SpecConcurrent == InitConcurrent /\ [][NextConcurrent]_vars

(***************************************************************************)
(* One call whose caller passes headers of its own: none, an ordinary one, *)
(* or an ordinary one with the proof token of an earlier payment.          *)
(***************************************************************************)
CallerHeaders ==
    {NoHeaders,
     [given |-> TRUE,
      map |-> [n \in {"Accept"} |-> HeaderText("application/json")]],
     [given |-> TRUE,
      map |-> [n \in {"Accept", "X-Payment-Proof"} |->
                  IF n = "Accept" THEN HeaderText("application/json")
                  ELSE HeaderText("token of an earlier payment")]]}

NextReplay ==
    \/ \E c \in Slots, e \in Entries, h \in CallerHeaders : Start(c, e, TRUE, h)
    \/ \E c \in Slots, r \in ConcurrentResponses : Response1(c, r)
    \/ \E c \in Slots : CreateAccepted(c)
    \/ \E c \in Slots, lat \in Latencies : PollAnswered(c, lat)
    \/ \E c \in Slots : call[c].polls < MaxPolls /\ SleepDone(c)
    \/ \E c \in Slots, r \in RetryResponses : Response2(c, r)
    \/ \E tid \in DOMAIN transfers : RailSettles(tid, "complete", TRUE)
    \/ \E tid \in DOMAIN transfers : RailSettles(tid, "complete", FALSE)

SpecReplay == Init /\ [][NextReplay]_vars

(***************************************************************************)
(* A settlement wait on its own (CircleGatewayClient.                      *)
(* wait_for_transfer_completion), for any timeout and interval and any     *)
(* answers of the rail.  Time is counted in whole seconds.                 *)
(***************************************************************************)
WaitTimeouts == {0, 1, 3, 5}

WaitIntervals == {1, poll_interval}

RailStatuses == {"pending", "complete", "failed"}

\* the call: start_time is read and the first poll is sent (401-404)
WaitStart(limit, interval) ==
    /\ wait.pc = "idle"
    /\ wait' = [IdleWait EXCEPT !.pc = "polling", !.timeout = limit,
                                !.poll_interval = interval, !.polls = 1]
    /\ UNCHANGED beyond_wait

\* a poll is answered lat seconds after it was sent (404-415)
WaitPollAnswered(lat, status) ==
    /\ wait.pc = "polling"
    /\ LET el == wait.elapsed + lat
           step == wait_decision(status, el, wait.timeout)
       IN wait' = [wait EXCEPT !.elapsed = el,
                               !.status = status,
                               !.pc = IF step = "sleep" THEN "sleeping"
                                      ELSE "done",
                               !.outcome = IF step = "sleep" THEN "none"
                                           ELSE step]
    /\ UNCHANGED beyond_wait

\* asyncio.sleep(poll_interval) returns and the next poll is sent (415, 404)
WaitSleepDone ==
    /\ wait.pc = "sleeping"
    /\ wait' = [wait EXCEPT !.pc = "polling",
                            !.elapsed = @ + wait.poll_interval,
                            !.polls = @ + 1]
    /\ UNCHANGED beyond_wait

NextWait ==
    \/ \E limit \in WaitTimeouts, interval \in WaitIntervals :
           WaitStart(limit, interval)
    \/ \E lat \in Latencies, status \in RailStatuses :
           WaitPollAnswered(lat, status)
    \/ WaitSleepDone

\* every poll sent is answered and every sleep returns
SpecWait ==
    /\ Init
    /\ [][NextWait]_vars
    /\ WF_vars(\E lat \in Latencies, status \in RailStatuses :
                   WaitPollAnswered(lat, status))
    /\ WF_vars(WaitSleepDone)

(***************************************************************************)
(* Agent lifecycle (BaseAgent.start and stop, with the hooks of            *)
(* VaultAgent).  start has no suspension point before its publish;  stop   *)
(* awaits _on_stop, which closes the HTTP sessions, before it clears       *)
(* _running.                                                               *)
(***************************************************************************)
\* the event start and stop publish
AgentEvent(event_type) ==
    [event_type |-> event_type, source_agent |-> "VaultAgent",
     amount |-> 0, task |-> 0]

\* start(): nothing on a running agent; else _running is set, the handlers
\* registered, _on_start run and AGENT_STARTED published (44-57)
AgentStart(t) ==
    /\ agent.pc[t] = "idle"
    /\ agent.calls < MaxAgentCalls
    /\ IF agent.running
       THEN /\ agent' = [agent EXCEPT !.calls = @ + 1]
            /\ UNCHANGED event_history
       ELSE /\ agent' = [agent EXCEPT !.calls = @ + 1, !.running = TRUE]
            /\ event_history' =
                   publish(event_history, AgentEvent("AGENT_STARTED"))
    /\ UNCHANGED beyond_agent

\* stop() up to its first suspension point: nothing on a stopped agent;
\* else _on_stop is awaited, which awaits the close of the sessions
\* (63-68; vault_agent.py 183-187)
AgentStop(t) ==
    /\ agent.pc[t] = "idle"
    /\ agent.calls < MaxAgentCalls
    /\ agent' = [agent EXCEPT !.calls = @ + 1,
                              !.pc[t] = IF agent.running THEN "on_stop"
                                        ELSE "idle"]
    /\ UNCHANGED event_history
    /\ UNCHANGED beyond_agent

\* _on_stop returns: _running is cleared and AGENT_STOPPED published (69-75)
AgentStopResumes(t) ==
    /\ agent.pc[t] = "on_stop"
    /\ agent' = [agent EXCEPT !.running = FALSE, !.pc[t] = "idle"]
    /\ event_history' = publish(event_history, AgentEvent("AGENT_STOPPED"))
    /\ UNCHANGED beyond_agent

NextAgent ==
    \/ \E t \in Tasks : AgentStart(t)
    \/ \E t \in Tasks : AgentStop(t)
    \/ \E t \in Tasks : AgentStopResumes(t)

SpecAgent == Init /\ [][NextAgent]_vars

(***************************************************************************)
(* Payment Proof Codec (PaymentProof.to_header / from_header) and          *)
(* verify_payment_proof.  Text is a sequence of ASCII codes; a byte string *)
(* is a sequence of numbers below 256.  A float whose value is a whole     *)
(* number of units is Num(n); float("nan") is NaN.  A value that came out  *)
(* of JSON is a Python str, int or None.                                   *)
(***************************************************************************)
\* "transfer_id"
Txt_transfer_id == <<116, 114, 97, 110, 115, 102, 101, 114, 95, 105, 100>>

\* "tx_hash"
Txt_tx_hash == <<116, 120, 95, 104, 97, 115, 104>>

\* "amount"
Txt_amount == <<97, 109, 111, 117, 110, 116>>

\* "currency"
Txt_currency == <<99, 117, 114, 114, 101, 110, 99, 121>>

\* "payer"
Txt_payer == <<112, 97, 121, 101, 114>>

\* "timestamp"
Txt_timestamp == <<116, 105, 109, 101, 115, 116, 97, 109, 112>>

\* "nan"
Txt_nan == <<110, 97, 110>>

\* "null"
Txt_null == <<110, 117, 108, 108>>

\* "t1"
Txt_t1 == <<116, 49>>

\* "0x1"
Txt_0x1 == <<48, 120, 49>>

\* "USDC"
Txt_USDC == <<85, 83, 68, 67>>

\* "0xP"
Txt_0xP == <<48, 120, 80>>

\* "soon"
Txt_soon == <<115, 111, 111, 110>>

Num(n) == [tag |-> "num", val |-> n]

NaN == [tag |-> "nan", val |-> 0]

PyStr(s) == [t |-> "str", s |-> s, n |-> 0]

PyInt(n) == [t |-> "int", s |-> << >>, n |-> n]

PyNone == [t |-> "None", s |-> << >>, n |-> 0]

IsDigit(c) == c >= 48 /\ c <= 57

AllDigits(s) == \A i \in DOMAIN s : IsDigit(s[i])

\* the decimal digits of a natural number
RECURSIVE Digits(_)
Digits(n) ==
    IF n < 10 THEN <<48 + n>>
    ELSE Append(Digits(n \div 10), 48 + (n % 10))

\* the natural number a string of digits denotes
RECURSIVE NatOf(_)
NatOf(s) ==
    IF s = << >> THEN 0
    ELSE NatOf(SubSeq(s, 1, Len(s) - 1)) * 10 + (s[Len(s)] - 48)

\* n in w digits, zero-padded (the %02d, %04d and %06d of isoformat)
Pad(n, w) ==
    LET d == Digits(n)
    IN [i \in 1..w |-> IF i <= w - Len(d) THEN 48 ELSE d[i - (w - Len(d))]]

\* str(x) of a float: repr of a whole number ends in ".0"; nan is "nan"
str_float(x) ==
    IF x.tag = "nan" THEN Txt_nan
    ELSE IF x.val < 0 THEN <<45>> \o Digits(0 - x.val) \o <<46, 48>>
    ELSE Digits(x.val) \o <<46, 48>>

FloatError == [ok |-> FALSE, x |-> NaN]

\* float(s) of a str: "nan", or an optional sign, digits and an optional
\* fraction.  ValueError otherwise.  (Fractions other than zero, exponents,
\* infinities and surrounding blanks are outside the amounts of the model.)
float_of_str(s) ==
    IF s = Txt_nan THEN [ok |-> TRUE, x |-> NaN]
    ELSE LET neg == s # << >> /\ s[1] = 45
             body == IF neg THEN Tail(s) ELSE s
             dots == {i \in DOMAIN body : body[i] = 46}
             dot == IF dots = {} THEN Len(body) + 1
                    ELSE CHOOSE i \in dots : \A j \in dots : i <= j
             ip == SubSeq(body, 1, dot - 1)
             fp == SubSeq(body, dot + 1, Len(body))
         IN IF /\ (ip # << >> \/ fp # << >>)
               /\ AllDigits(ip)
               /\ \A i \in DOMAIN fp : fp[i] = 48
            THEN [ok |-> TRUE,
                  x |-> Num(IF neg THEN 0 - NatOf(ip) ELSE NatOf(ip))]
            ELSE FloatError

\* float(v) of a value out of JSON: TypeError for None
float_of(v) ==
    IF v.t = "str" THEN float_of_str(v.s)
    ELSE IF v.t = "int" THEN [ok |-> TRUE, x |-> Num(v.n)]
    ELSE FloatError

\* an isoformat without the fraction of a second
isoformat_without_microsecond(d) ==
    Pad(d.year, 4) \o <<45>> \o Pad(d.month, 2) \o <<45>> \o Pad(d.day, 2)
        \o <<84>> \o Pad(d.hour, 2) \o <<58>> \o Pad(d.minute, 2)
        \o <<58>> \o Pad(d.second, 2)

\* datetime.isoformat() of a naive datetime: YYYY-MM-DDTHH:MM:SS, followed
\* by .ffffff when the microsecond is not zero
isoformat(d) ==
    Pad(d.year, 4) \o <<45>> \o Pad(d.month, 2) \o <<45>> \o Pad(d.day, 2)
        \o <<84>> \o Pad(d.hour, 2) \o <<58>> \o Pad(d.minute, 2)
        \o <<58>> \o Pad(d.second, 2)
        \o (IF d.microsecond = 0 THEN << >>
            ELSE <<46>> \o Pad(d.microsecond, 6))

NoDatetime == [year |-> 0, month |-> 0, day |-> 0, hour |-> 0, minute |-> 0,
               second |-> 0, microsecond |-> 0]

DatetimeError == [ok |-> FALSE, d |-> NoDatetime]

\* datetime.fromisoformat(s) of text in one of the two shapes isoformat()
\* produces; ValueError on a field out of range and on text that is no date
\* (the other shapes a date may be written in are outside the model)
fromisoformat_str(s) ==
    LET digitAt == {1, 2, 3, 4, 6, 7, 9, 10, 12, 13, 15, 16, 18, 19}
                      \cup (IF Len(s) = 26 THEN 21..26 ELSE {})
    IN IF /\ Len(s) \in {19, 26}
          /\ s[5] = 45 /\ s[8] = 45 /\ s[14] = 58 /\ s[17] = 58
          /\ (Len(s) = 26 => s[20] = 46)
          /\ \A i \in digitAt : IsDigit(s[i])
       THEN LET d == [year |-> NatOf(SubSeq(s, 1, 4)),
                      month |-> NatOf(SubSeq(s, 6, 7)),
                      day |-> NatOf(SubSeq(s, 9, 10)),
                      hour |-> NatOf(SubSeq(s, 12, 13)),
                      minute |-> NatOf(SubSeq(s, 15, 16)),
                      second |-> NatOf(SubSeq(s, 18, 19)),
                      microsecond |-> IF Len(s) = 26
                                      THEN NatOf(SubSeq(s, 21, 26)) ELSE 0]
            IN IF /\ d.year >= 1 /\ d.month \in 1..12 /\ d.day \in 1..31
                  /\ d.hour < 24 /\ d.minute < 60 /\ d.second < 60
               THEN [ok |-> TRUE, d |-> d]
               ELSE DatetimeError
       ELSE DatetimeError

\* fromisoformat(v) of a value out of JSON: TypeError unless it is a str
fromisoformat(v) ==
    IF v.t = "str" THEN fromisoformat_str(v.s) ELSE DatetimeError

(***************************************************************************)
(* json.dumps and json.loads of a flat object whose values are strings,    *)
(* integers or null.  An object is the sequence of its <<key, value>>      *)
(* members.  Strings are plain: none of the model needs an escape.         *)
(***************************************************************************)
Quoted(s) == <<34>> \o s \o <<34>>

json_value(v) ==
    IF v.t = "str" THEN Quoted(v.s)
    ELSE IF v.t = "int"
        THEN (IF v.n < 0 THEN <<45>> \o Digits(0 - v.n) ELSE Digits(v.n))
    ELSE Txt_null

RECURSIVE json_members(_, _)
json_members(obj, i) ==
    IF i > Len(obj) THEN << >>
    ELSE (IF i > 1 THEN <<44, 32>> ELSE << >>)
             \o Quoted(obj[i][1]) \o <<58, 32>> \o json_value(obj[i][2])
             \o json_members(obj, i + 1)

\* json.dumps(data): members in insertion order, ", " and ": " between
json_dumps(obj) == <<123>> \o json_members(obj, 1) \o <<125>>

IsWs(c) == c \in {32, 9, 10, 13}

RECURSIVE skip_ws(_, _)
skip_ws(s, i) ==
    IF i <= Len(s) /\ IsWs(s[i]) THEN skip_ws(s, i + 1) ELSE i

\* the index of the quote closing the string whose text starts at i, 0 when
\* there is none before a control character, a backslash or the end
RECURSIVE string_end(_, _)
string_end(s, i) ==
    IF i > Len(s) THEN 0
    ELSE IF s[i] = 34 THEN i
    ELSE IF s[i] = 92 \/ s[i] < 32 THEN 0
    ELSE string_end(s, i + 1)

\* the first index from i on that holds no digit
RECURSIVE digits_end(_, _)
digits_end(s, i) ==
    IF i <= Len(s) /\ IsDigit(s[i]) THEN digits_end(s, i + 1) ELSE i

NoValue == [ok |-> FALSE, v |-> PyNone, next |-> 0]

\* one JSON value starting at i: a string, null or an integer
parse_value(s, i) ==
    IF i > Len(s) THEN NoValue
    ELSE IF s[i] = 34
        THEN LET e == string_end(s, i + 1)
             IN IF e = 0 THEN NoValue
                ELSE [ok |-> TRUE, v |-> PyStr(SubSeq(s, i + 1, e - 1)),
                      next |-> e + 1]
    ELSE IF i + 3 <= Len(s) /\ SubSeq(s, i, i + 3) = Txt_null
        THEN [ok |-> TRUE, v |-> PyNone, next |-> i + 4]
    ELSE LET j == IF s[i] = 45 THEN i + 1 ELSE i
             e == digits_end(s, j)
         IN IF e > j
            THEN [ok |-> TRUE,
                  v |-> PyInt(IF j > i THEN 0 - NatOf(SubSeq(s, j, e - 1))
                              ELSE NatOf(SubSeq(s, j, e - 1))),
                  next |-> e]
            ELSE NoValue

JsonError == [ok |-> FALSE, obj |-> << >>]

\* the members of an object from index i on, obj being those read so far
RECURSIVE parse_members(_, _, _)
parse_members(s, i, obj) ==
    LET k == parse_value(s, skip_ws(s, i))
    IN IF ~k.ok \/ k.v.t # "str" THEN JsonError
       ELSE LET c == skip_ws(s, k.next)
            IN IF c > Len(s) \/ s[c] # 58 THEN JsonError
               ELSE LET v == parse_value(s, skip_ws(s, c + 1))
                        d == skip_ws(s, v.next)
                        obj2 == Append(obj, <<k.v.s, v.v>>)
                    IN IF ~v.ok \/ d > Len(s) THEN JsonError
                       ELSE IF s[d] = 44 THEN parse_members(s, d + 1, obj2)
                       ELSE IF s[d] = 125 /\ skip_ws(s, d + 1) > Len(s)
                           THEN [ok |-> TRUE, obj |-> obj2]
                       ELSE JsonError

\* json.loads(s) when s is a flat object; JSONDecodeError on other text (a
\* JSON text that is no object fails one step later, at data["transfer_id"])
json_loads(s) ==
    LET i == skip_ws(s, 1)
    IN IF i > Len(s) \/ s[i] # 123 THEN JsonError
       ELSE LET j == skip_ws(s, i + 1)
            IN IF j <= Len(s) /\ s[j] = 125
               THEN (IF skip_ws(s, j + 1) > Len(s)
                     THEN [ok |-> TRUE, obj |-> << >>] ELSE JsonError)
               ELSE parse_members(s, j, << >>)

HasKey(obj, key) == \E i \in DOMAIN obj : obj[i][1] = key

\* data[key]: the last member with that key
Get(obj, key) ==
    LET i == CHOOSE i \in DOMAIN obj :
                 obj[i][1] = key /\ \A j \in DOMAIN obj : obj[j][1] = key => j <= i
    IN obj[i][2]

(***************************************************************************)
(* base64.b64encode and base64.b64decode (binascii.a2b_base64, not strict) *)
(***************************************************************************)
\* the character of a 6-bit value: A-Z, a-z, 0-9, +, /
B64Char(v) ==
    IF v < 26 THEN 65 + v
    ELSE IF v < 52 THEN 71 + v
    ELSE IF v < 62 THEN v - 4
    ELSE IF v = 62 THEN 43
    ELSE 47

\* the 6-bit value of a character, -1 for a character outside the alphabet
B64Index(c) ==
    IF c >= 65 /\ c <= 90 THEN c - 65
    ELSE IF c >= 97 /\ c <= 122 THEN c - 71
    ELSE IF c >= 48 /\ c <= 57 THEN c + 4
    ELSE IF c = 43 THEN 62
    ELSE IF c = 47 THEN 63
    ELSE -1

\* b64encode: every three bytes give four characters, the last group is
\* filled up with the padding character
b64encode(b) ==
    LET n == Len(b)
        At(i) == IF i <= n THEN b[i] ELSE 0
    IN [j \in 1..(((n + 2) \div 3) * 4) |->
           LET g == ((j - 1) \div 4) * 3
               r == (j - 1) % 4
           IN IF r = 0 THEN B64Char(At(g + 1) \div 4)
              ELSE IF r = 1
                  THEN B64Char((At(g + 1) % 4) * 16 + At(g + 2) \div 16)
              ELSE IF r = 2
                  THEN (IF g + 2 > n THEN 61
                        ELSE B64Char((At(g + 2) % 16) * 4 + At(g + 3) \div 64))
              ELSE (IF g + 3 > n THEN 61 ELSE B64Char(At(g + 3) % 64))]

B64Error == [ok |-> FALSE, bytes |-> << >>]

IsB64Data(c) == B64Index(c) >= 0

\* the position within its group of four at which character i is read
QuadPos(s, i) == Cardinality({j \in 1..(i - 1) : IsB64Data(s[j])}) % 4

\* a2b_base64 stops at a padding character that completes the group: one
\* read at position 3, or at position 2 after another padding character
\* with no character of the alphabet in between
PadEnds(s, i) ==
    /\ s[i] = 61
    /\ \/ QuadPos(s, i) = 3
       \/ /\ QuadPos(s, i) = 2
          /\ \E j \in 1..(i - 1) :
                s[j] = 61 /\ \A k \in j..i : ~IsB64Data(s[k])

\* base64.b64decode(s), binascii.a2b_base64 when not strict: a character
\* outside the alphabet is skipped, and so is a padding character that
\* completes no group; the input ends at the first padding that does; a
\* group left open at the end of the input is binascii.Error
b64decode(s) ==
    LET ends == {i \in DOMAIN s : PadEnds(s, i)}
        stop == IF ends = {} THEN Len(s) + 1
                ELSE CHOOSE i \in ends : \A j \in ends : i <= j
        v == SelectSeq(SubSeq(s, 1, stop - 1), IsB64Data)
        rem == Len(v) % 4
        n == (Len(v) \div 4) * 3 + (IF rem = 0 THEN 0 ELSE rem - 1)
        Six(i) == B64Index(v[i])
    IN IF ends = {} /\ rem # 0 THEN B64Error
       ELSE [ok |-> TRUE,
             bytes |->
                [k \in 1..n |->
                    LET g == ((k - 1) \div 3) * 4
                        r == (k - 1) % 3
                    IN IF r = 0 THEN Six(g + 1) * 4 + Six(g + 2) \div 16
                       ELSE IF r = 1
                           THEN (Six(g + 2) % 16) * 16 + Six(g + 3) \div 4
                       ELSE (Six(g + 3) % 4) * 64 + Six(g + 4)]]

(***************************************************************************)
(* PaymentProof.                                                           *)
(***************************************************************************)
RequiredKeys ==
    {Txt_transfer_id, Txt_tx_hash, Txt_amount, Txt_currency, Txt_payer,
     Txt_timestamp}

\* the dict to_header serializes, in its order
proof_data(p) ==
    <<<<Txt_transfer_id, p.transfer_id>>,
      <<Txt_tx_hash, p.tx_hash>>,
      <<Txt_amount, PyStr(str_float(p.amount))>>,
      <<Txt_currency, p.currency>>,
      <<Txt_payer, p.payer_address>>,
      <<Txt_timestamp, PyStr(isoformat(p.timestamp))>>>>

\* PaymentProof.to_header
to_header(p) == b64encode(json_dumps(proof_data(p)))

NoneProof ==
    [transfer_id |-> PyNone, tx_hash |-> PyNone, amount |-> NaN,
     currency |-> PyNone, payer_address |-> PyNone, timestamp |-> NoDatetime]

DecodeError(exc) == [ok |-> FALSE, exc |-> exc, proof |-> NoneProof]

\* PaymentProof.from_header: the proof, or the exception it raises
from_header(h) ==
    LET raw == b64decode(h)
        data == json_loads(raw.bytes)
    IN IF ~raw.ok THEN DecodeError("binascii.Error")
       ELSE IF \E i \in DOMAIN raw.bytes : raw.bytes[i] >= 128
           THEN DecodeError("UnicodeDecodeError")
       ELSE IF ~data.ok THEN DecodeError("JSONDecodeError")
       ELSE IF \E k \in RequiredKeys : ~HasKey(data.obj, k)
           THEN DecodeError("KeyError")
       ELSE LET amount == float_of(Get(data.obj, Txt_amount))
                timestamp == fromisoformat(Get(data.obj, Txt_timestamp))
            IN IF ~amount.ok \/ ~timestamp.ok
               THEN DecodeError("ValueError")
               ELSE [ok |-> TRUE, exc |-> "",
                     proof |->
                        [transfer_id |-> Get(data.obj, Txt_transfer_id),
                         tx_hash |-> Get(data.obj, Txt_tx_hash),
                         amount |-> amount.x,
                         currency |-> Get(data.obj, Txt_currency),
                         payer_address |-> Get(data.obj, Txt_payer),
                         timestamp |-> timestamp.d]]

\* a < e * 0.99 for a float a and a whole expected amount e: every
\* comparison with nan is false
BelowTolerance(a, e) == a.tag = "num" /\ a.val * 100 < e * 99

\* verify_payment_proof (expected_recipient is never read)
verify_payment_proof(proof_header, expected_amount, expected_recipient) ==
    LET decoded == from_header(proof_header)
    IN IF ~decoded.ok THEN [is_valid |-> FALSE, proof |-> NoneProof]
       ELSE IF BelowTolerance(decoded.proof.amount, expected_amount)
           THEN [is_valid |-> FALSE, proof |-> decoded.proof]
       ELSE [is_valid |-> TRUE, proof |-> decoded.proof]

(***************************************************************************)
(* A proof on its way: encoded by to_header, or a token somebody else      *)
(* built, possibly cut short or padded with foreign characters in transit, *)
(* then decoded by from_header or checked by verify_payment_proof.         *)
(***************************************************************************)
\* amounts of a proof: around 99% of a hundred units, a negative one, nan
ProofAmounts == {Num(-1), Num(98), Num(99), Num(100), NaN}

\* issue times: on a whole second, and with a fraction of a second
ProofTimestamps ==
    {[year |-> 2024, month |-> 1, day |-> 31, hour |-> 23, minute |-> 59,
      second |-> 5, microsecond |-> m] : m \in {0, 81446}}

Proofs ==
    [transfer_id : {PyStr(Txt_t1)},
     tx_hash : {PyStr(Txt_0x1)},
     amount : ProofAmounts,
     currency : {PyStr(Txt_USDC)},
     payer_address : {PyStr(Txt_0xP)},
     timestamp : ProofTimestamps]

\* amounts a resource server expects
ExpectedAmounts == {0, 100}

\* characters outside the base64 alphabet, and the padding character
JunkChars == {33, 61}

NoDecoded == [ok |-> FALSE, exc |-> "", proof |-> NoneProof]

NoVerdict == [is_valid |-> FALSE, proof |-> NoneProof]

NewCodec(p) ==
    [pc |-> "proof", proof |-> p, origin |-> "none", header |-> << >>,
     decoded |-> NoDecoded, expected |-> 0, recipient |-> "",
     verdict |-> NoVerdict]

InitCodec ==
    /\ InitHandler
    /\ InitVaultAgent
    /\ InitStandalone
    /\ InitEventBus
    /\ \E p \in Proofs : codec = NewCodec(p)

\* the payer side: proof.to_header() (x402_handler.py 381-383)
Encode ==
    /\ codec.pc = "proof"
    /\ codec' = [codec EXCEPT !.pc = "header", !.origin = "to_header",
                              !.header = to_header(codec.proof)]
    /\ UNCHANGED beyond_codec

\* what a foreign encoder makes of the proof's dict: a member left out, or
\* its value null, a number, or text that is neither amount nor time
Forged(obj, key, how) ==
    LET keep == {i \in DOMAIN obj : obj[i][1] # key \/ how # "drop"}
        Nth(n) == CHOOSE i \in keep : Cardinality({j \in keep : j <= i}) = n
    IN [n \in 1..Cardinality(keep) |->
           IF obj[Nth(n)][1] # key THEN obj[Nth(n)]
           ELSE <<key, IF how = "null" THEN PyNone
                       ELSE IF how = "int" THEN PyInt(7)
                       ELSE PyStr(Txt_soon)>>]

Forgeries ==
    (RequiredKeys \X {"drop", "null", "int"})
        \cup ({Txt_amount, Txt_timestamp} \X {"text"})

\* a token that no to_header produced arrives instead
Forge(key, how) ==
    /\ codec.pc = "proof"
    /\ codec' = [codec EXCEPT
                    !.pc = "header", !.origin = "forged",
                    !.header = b64encode(json_dumps(
                                   Forged(proof_data(codec.proof), key, how)))]
    /\ UNCHANGED beyond_codec

\* the token is cut after its first n characters
Truncate(n) ==
    /\ codec.pc = "header"
    /\ codec.origin = "to_header"
    /\ n < Len(codec.header)
    /\ codec' = [codec EXCEPT !.origin = "truncated",
                              !.header = SubSeq(codec.header, 1, n)]
    /\ UNCHANGED beyond_codec

\* a character is inserted after the first n characters of the token
InsertJunk(n, ch) ==
    /\ codec.pc = "header"
    /\ codec.origin = "to_header"
    /\ n <= Len(codec.header)
    /\ codec' = [codec EXCEPT
                    !.origin = "junk",
                    !.header = SubSeq(codec.header, 1, n) \o <<ch>>
                                 \o SubSeq(codec.header, n + 1,
                                           Len(codec.header))]
    /\ UNCHANGED beyond_codec

\* PaymentProof.from_header(header)
Decode ==
    /\ codec.pc = "header"
    /\ codec' = [codec EXCEPT !.pc = "decoded",
                              !.decoded = from_header(codec.header)]
    /\ UNCHANGED beyond_codec

\* the recipient the verifier expects: the payee, or somebody else
Recipients == {"0xMerchant", "0xOther"}

\* verify_payment_proof(header, expected_amount, expected_recipient)
Verify(expected_amount, expected_recipient) ==
    /\ codec.pc = "header"
    /\ codec' = [codec EXCEPT
                    !.pc = "verified", !.expected = expected_amount,
                    !.recipient = expected_recipient,
                    !.verdict = verify_payment_proof(codec.header,
                                                     expected_amount,
                                                     expected_recipient)]
    /\ UNCHANGED beyond_codec

NextCodec ==
    \/ Encode
    \/ \E f \in Forgeries : Forge(f[1], f[2])
    \/ \E n \in 0..(Len(codec.header) - 1) : Truncate(n)
    \/ \E n \in 0..Len(codec.header), ch \in JunkChars : InsertJunk(n, ch)
    \/ Decode
    \/ \E e \in ExpectedAmounts, r \in Recipients : Verify(e, r)

SpecCodec == InitCodec /\ [][NextCodec]_vars

(***************************************************************************)
(* Guardrail engine and ledger of the vault agent (vault_agent.py), in     *)
(* demo mode.  A guarded action runs in a task; it is suspended once,      *)
(* while the ledger operation sleeps, and other tasks and the clock move   *)
(* on meanwhile.  The clock never goes back.                               *)
(***************************************************************************)
VaultActions == {"deposit", "withdraw", "compound"}

\* amounts of a deposit or withdraw, in USDC: none, negative, what the demo
\* balance covers twice, what it covers once, the ceiling, above the ceiling
VaultAmounts == {0, -1, 400, 600, max_deposit_amount, max_deposit_amount + 1}

\* a _check_cooldown that demands more than the cooldown to have passed
check_cooldown_strict(last, action, t) ==
    t - (IF action \in DOMAIN last THEN last[action] ELSE 0) > cooldown_seconds

\* VaultAgent._check_cooldown at time t
check_cooldown(last, action, t) ==
    t - (IF action \in DOMAIN last THEN last[action] ELSE 0) >= cooldown_seconds

\* VaultAgent._update_cooldown at time t
update_cooldown(last, action, t) ==
    [a \in DOMAIN last \cup {action} |-> IF a = action THEN t ELSE last[a]]

\* VaultAgent._to_usdc_units
to_usdc_units(amount) == amount * usdc_unit

\* amount guardrails that let an amount of zero through
amount_violation_zero_allowed(action, amount) ==
    IF action = "compound" THEN ""
    ELSE IF amount < 0 THEN "amount must be positive"
    ELSE IF action = "deposit" /\ amount > max_deposit_amount
        THEN "amount exceeds maximum"
    ELSE IF action = "withdraw" /\ amount > max_withdraw_amount
        THEN "amount exceeds maximum"
    ELSE ""

\* the amount guardrails of deposit (402-405) and withdraw (525-528);
\* compound takes no amount
amount_violation(action, amount) ==
    IF action = "compound" THEN ""
    ELSE IF amount <= 0 THEN "amount must be positive"
    ELSE IF action = "deposit" /\ amount > max_deposit_amount
        THEN "amount exceeds maximum"
    ELSE IF action = "withdraw" /\ amount > max_withdraw_amount
        THEN "amount exceeds maximum"
    ELSE ""

\* the guardrails of an action called at time t: "" when it may go ahead
guardrail(action, amount, last, t) ==
    IF amount_violation(action, amount) # ""
    THEN amount_violation(action, amount)
    ELSE IF ~check_cooldown(last, action, t) THEN "in cooldown"
    ELSE ""

\* a check that stamps the cooldown as it lets the action through
passed_check_stamps(last, action, t) == update_cooldown(last, action, t)

\* the cooldown map after an action passed its check at time t: the check
\* only reads it (407-409, 530-532, 603-604)
passed_check(last, action, t) == last

\* a cooldown that is stamped whether the operation failed or not
cooldown_after_any_outcome(last, action, t, ok) ==
    update_cooldown(last, action, t)

\* the cooldown map after the ledger operation ended at time t: stamped
\* inside the try block, after the operation returned (422, 545, 615)
cooldown_after(last, action, t, ok) ==
    IF ok THEN update_cooldown(last, action, t) ELSE last

\* a demo ledger that moves the amount whatever the balance is
demo_ledger_unchecked(action, amount, shares, usdc) ==
    IF action = "deposit"
    THEN [ok |-> TRUE, msg |-> "", shares |-> shares + to_usdc_units(amount),
          usdc |-> usdc - to_usdc_units(amount)]
    ELSE IF action = "withdraw"
    THEN [ok |-> TRUE, msg |-> "", shares |-> shares - to_usdc_units(amount),
          usdc |-> usdc + to_usdc_units(amount)]
    ELSE [ok |-> TRUE, msg |-> "", shares |-> shares + shares \div 1000,
          usdc |-> usdc]

\* _demo_deposit, _demo_withdraw and _demo_compound after their sleep
demo_ledger(action, amount, shares, usdc) ==
    IF action = "deposit"
    THEN (IF to_usdc_units(amount) > usdc
          THEN [ok |-> FALSE, msg |-> "Insufficient USDC balance",
                shares |-> shares, usdc |-> usdc]
          ELSE [ok |-> TRUE, msg |-> "",
                shares |-> shares + to_usdc_units(amount),
                usdc |-> usdc - to_usdc_units(amount)])
    ELSE IF action = "withdraw"
    THEN (IF to_usdc_units(amount) > shares
          THEN [ok |-> FALSE, msg |-> "Insufficient vault shares",
                shares |-> shares, usdc |-> usdc]
          ELSE [ok |-> TRUE, msg |-> "",
                shares |-> shares - to_usdc_units(amount),
                usdc |-> usdc + to_usdc_units(amount)])
    ELSE [ok |-> TRUE, msg |-> "", shares |-> shares + shares \div 1000,
          usdc |-> usdc]

\* event types in which a failed action is announced as completed
EventName_failed_as_completed(action, phase) ==
    IF action = "deposit" THEN
        (IF phase = "initiated" THEN "DEPOSIT_INITIATED"
         ELSE "DEPOSIT_COMPLETED")
    ELSE IF action = "withdraw" THEN
        (IF phase = "initiated" THEN "WITHDRAW_INITIATED"
         ELSE "WITHDRAW_COMPLETED")
    ELSE
        (IF phase = "initiated" THEN "COMPOUND_INITIATED"
         ELSE "COMPOUND_COMPLETED")

\* EventType of the three phases of an action
EventName(action, phase) ==
    IF action = "deposit" THEN
        (IF phase = "initiated" THEN "DEPOSIT_INITIATED"
         ELSE IF phase = "completed" THEN "DEPOSIT_COMPLETED"
         ELSE "DEPOSIT_FAILED")
    ELSE IF action = "withdraw" THEN
        (IF phase = "initiated" THEN "WITHDRAW_INITIATED"
         ELSE IF phase = "completed" THEN "WITHDRAW_COMPLETED"
         ELSE "WITHDRAW_FAILED")
    ELSE
        (IF phase = "initiated" THEN "COMPOUND_INITIATED"
         ELSE IF phase = "completed" THEN "COMPOUND_COMPLETED"
         ELSE "COMPOUND_FAILED")

\* BaseAgent.emit: the event a task of the vault agent publishes
VaultEvent(action, phase, amount, s) ==
    [event_type |-> EventName(action, phase), source_agent |-> "VaultAgent",
     amount |-> amount, task |-> s]

\* one line of the log: what task s did at time t
LogEntry(s, action, amount, step, t) ==
    [task |-> s, action |-> action, amount |-> amount, step |-> step, t |-> t]

\* deposit, withdraw or compound up to the await of the ledger operation:
\* the guardrails, then the initiated event (401-415, 524-538, 603-608)
VaultCall(s, action, amount) ==
    /\ vault[s].pc = "idle"
    /\ LET v == guardrail(action, amount, last_action_time, now)
       IN IF v # ""
          THEN /\ vault' = [vault EXCEPT ![s] =
                               [pc |-> "done", action |-> action,
                                amount |-> amount,
                                result |-> Raised("ValueError", v)]]
               /\ vault_log' = Append(vault_log,
                                      LogEntry(s, action, amount, v, now))
               /\ UNCHANGED <<event_history, last_action_time>>
          ELSE /\ event_history' =
                      publish(event_history,
                              VaultEvent(action, "initiated", amount, s))
               /\ last_action_time' =
                      passed_check(last_action_time, action, now)
               /\ vault' = [vault EXCEPT ![s] =
                               [IdleTask EXCEPT !.pc = "ledger",
                                                !.action = action,
                                                !.amount = amount]]
               /\ vault_log' = Append(vault_log,
                                      LogEntry(s, action, amount, "passed", now))
    /\ UNCHANGED <<now, ticks, demo_balance, demo_usdc_balance>>
    /\ UNCHANGED beyond_vault

\* the ledger operation resumes after its sleep and ends; the cooldown is
\* stamped and the completed event published, or the failed event is
\* published and the error raised again (417-439, 540-562, 610-630)
LedgerDone(s) ==
    /\ vault[s].pc = "ledger"
    /\ LET action == vault[s].action
           amount == vault[s].amount
           r == demo_ledger(action, amount, demo_balance, demo_usdc_balance)
       IN /\ demo_balance' = r.shares
          /\ demo_usdc_balance' = r.usdc
          /\ last_action_time' =
                 cooldown_after(last_action_time, action, now, r.ok)
          /\ event_history' =
                 publish(event_history,
                         VaultEvent(action,
                                    IF r.ok THEN "completed" ELSE "failed",
                                    amount, s))
          /\ vault' = [vault EXCEPT ![s] =
                          [pc |-> "done", action |-> action,
                           amount |-> amount,
                           result |-> IF r.ok THEN Returned(0)
                                      ELSE Raised("ValueError", r.msg)]]
          /\ vault_log' =
                 Append(vault_log,
                        LogEntry(s, action, amount,
                                 IF r.ok THEN "completed" ELSE "failed", now))
    /\ UNCHANGED <<now, ticks>>
    /\ UNCHANGED beyond_vault

\* by how much the clock may have advanced between two readings
TickSteps == {1, cooldown_seconds - 1}

Tick(d) ==
    /\ ticks < MaxTicks
    /\ now' = now + d
    /\ ticks' = ticks + 1
    /\ UNCHANGED <<event_history, last_action_time, demo_balance,
                   demo_usdc_balance, vault, vault_log>>
    /\ UNCHANGED beyond_vault

NextVault ==
    \/ \E s \in Tasks, amount \in VaultAmounts : VaultCall(s, "deposit", amount)
    \/ \E s \in Tasks, amount \in VaultAmounts : VaultCall(s, "withdraw", amount)
    \/ \E s \in Tasks : VaultCall(s, "compound", 0)
    \/ \E s \in Tasks : LedgerDone(s)
    \/ \E d \in TickSteps : Tick(d)

SpecVault == Init /\ [][NextVault]_vars

(***************************************************************************)
(* Demo paywall (src/api/server.py, GET /demo/paywall).  Amounts are       *)
(* counted in thousandths of a USDC here: the price of 0.10 USDC is 100.   *)
(***************************************************************************)
Txt_0x2 == <<48, 120, 50>>

\* payment_amount = 0.10
payment_amount == usdc_unit \div 10

PAYWALL_RECIPIENT == "0x742d35Cc6634C0532925a3b844Bc9e7595f8fE21"

\* f"{amount:.6f}" of an amount in thousandths
format_6f(amount) ==
    Digits(amount \div usdc_unit) \o <<46>> \o Pad(amount % usdc_unit, 3)
        \o <<48, 48, 48>>

\* create_402_response_headers(amount, recipient_address, "USDC", "ARC",
\* payment_id, description), both optional headers being given
create_402_response_headers(amount, recipient_address, payment_id) ==
    [n \in {"X-Payment-Required", "X-Payment-Amount", "X-Payment-Currency",
            "X-Payment-Address", "X-Payment-Network", "X-Payment-Id",
            "X-Payment-Description"} |->
        IF n = "X-Payment-Required" THEN [text |-> "true", chars |-> << >>]
        ELSE IF n = "X-Payment-Amount"
            THEN [text |-> "", chars |-> format_6f(amount)]
        ELSE IF n = "X-Payment-Currency" THEN [text |-> "USDC", chars |-> << >>]
        ELSE IF n = "X-Payment-Address"
            THEN [text |-> recipient_address, chars |-> << >>]
        ELSE IF n = "X-Payment-Network" THEN [text |-> "ARC", chars |-> << >>]
        ELSE IF n = "X-Payment-Id" THEN [text |-> "uuid", chars |-> Digits(payment_id)]
        ELSE [text |-> "Access to premium DeFi yield strategies",
              chars |-> << >>]]

\* the three answers of the endpoint
PremiumContent(proof) ==
    [status |-> 200, granted_by |-> "proof", tx_hash |-> proof.tx_hash,
     amount_paid |-> proof.amount, payment_required |-> FALSE,
     headers |-> << >>]

ContentByTxHash ==
    [status |-> 200, granted_by |-> "tx_hash", tx_hash |-> PyNone,
     amount_paid |-> NaN, payment_required |-> FALSE, headers |-> << >>]

PaymentRequired(payment_id) ==
    [status |-> 402, granted_by |-> "", tx_hash |-> PyNone,
     amount_paid |-> Num(payment_amount), payment_required |-> TRUE,
     headers |-> create_402_response_headers(payment_amount,
                                             PAYWALL_RECIPIENT, payment_id)]

\* a paywall that takes the tx hash header at its word
paywall_answer_trusting_tx_hash(token, txhash, verdict, payments, payment_id) ==
    IF token # << >> /\ verdict.is_valid THEN PremiumContent(verdict.proof)
    ELSE IF txhash # << >> THEN ContentByTxHash
    ELSE PaymentRequired(payment_id)

\* demo_paywall: the answer to a request with the proof header `token` and
\* the tx hash header `txhash` (empty when absent), given the verdict on the
\* token and the payments recorded so far (463-530)
paywall_answer(token, txhash, verdict, payments, payment_id) ==
    IF token # << >> /\ verdict.is_valid THEN PremiumContent(verdict.proof)
    ELSE IF txhash # << >> /\ PyStr(txhash) \in DOMAIN payments
        THEN ContentByTxHash
    ELSE PaymentRequired(payment_id)

\* _paywall_payments[proof.tx_hash] = {...} (471-475)
record_paywall_payment(payments, proof) ==
    [k \in DOMAIN payments \cup {proof.tx_hash} |->
        IF k = proof.tx_hash
        THEN [amount |-> proof.amount, payer |-> proof.payer_address,
              timestamp |-> isoformat(proof.timestamp)]
        ELSE payments[k]]

\* the proofs clients hold: of the price with one of two hashes, and of
\* less than the price with the second
PaywallProofs ==
    {p \in [transfer_id : {PyStr(Txt_t1)},
            tx_hash : {PyStr(Txt_0x1), PyStr(Txt_0x2)},
            amount : {Num(98), Num(100)},
            currency : {PyStr(Txt_USDC)},
            payer_address : {PyStr(Txt_0xP)},
            timestamp : {[year |-> 2024, month |-> 1, day |-> 31,
                          hour |-> 23, minute |-> 59, second |-> 5,
                          microsecond |-> 0]}] :
        p.amount = Num(100) \/ p.tx_hash = PyStr(Txt_0x2)}

\* X-Payment-Proof: absent, a token of to_header, or a token cut short
PaywallTokens ==
    {<< >>} \cup {to_header(p) : p \in PaywallProofs}
        \cup {SubSeq(to_header(p), 1, 10) : p \in PaywallProofs}

\* X-Payment-TxHash: absent, or one of the two hashes
PaywallTxHashes == {<< >>, Txt_0x1, Txt_0x2}

\* GET /demo/paywall with the two headers
DemoPaywall(token, txhash) ==
    /\ Len(paywall.log) < MaxRequests
    /\ \E verdict \in {IF token # << >>
                        THEN verify_payment_proof(token, payment_amount,
                                                  PAYWALL_RECIPIENT)
                        ELSE NoVerdict} :
           paywall' =
               [payments |-> IF token # << >> /\ verdict.is_valid
                             THEN record_paywall_payment(paywall.payments,
                                                         verdict.proof)
                             ELSE paywall.payments,
                log |-> Append(paywall.log,
                               [token |-> token, txhash |-> txhash,
                                is_valid |-> verdict.is_valid,
                                proof |-> verdict.proof,
                                answer |->
                                    paywall_answer(token, txhash, verdict,
                                                   paywall.payments,
                                                   Len(paywall.log) + 1)])]
    /\ UNCHANGED beyond_paywall

NextPaywall ==
    \E token \in PaywallTokens, txhash \in PaywallTxHashes :
        DemoPaywall(token, txhash)

SpecPaywall == Init /\ [][NextPaywall]_vars

(***************************************************************************)
(* Event bus (event_bus.py): subscribe, unsubscribe and publish.  publish  *)
(* appends the event to the history and then calls the handlers of the     *)
(* event's type one after the other; a handler returns or raises an error. *)
(* Subscriptions change between publishes.                                 *)
(***************************************************************************)
\* the event types published here
EventTypes == {"DEPOSIT_COMPLETED", "AGENT_STARTED"}

\* a handler's call returns, or raises an Exception
Outcomes == {"returned", "raised"}

IndexOf(list, handler) ==
    CHOOSE i \in DOMAIN list :
        list[i] = handler /\ \A j \in 1..(i - 1) : list[j] # handler

\* list.remove(handler): the first occurrence goes
Remove(list, handler) ==
    SubSeq(list, 1, IndexOf(list, handler) - 1)
        \o SubSeq(list, IndexOf(list, handler) + 1, Len(list))

IsIn(list, handler) == \E i \in DOMAIN list : list[i] = handler

\* a subscribe without the check for a handler that is already there
subscribe_always_appends(subs, event_type, handler) ==
    LET keyed == [t \in DOMAIN subs \cup {event_type} |->
                     IF t \in DOMAIN subs THEN subs[t] ELSE << >>]
    IN [keyed EXCEPT ![event_type] = Append(@, handler)]

\* a subscribe that puts the newest handler first
subscribe_newest_first(subs, event_type, handler) ==
    LET keyed == [t \in DOMAIN subs \cup {event_type} |->
                     IF t \in DOMAIN subs THEN subs[t] ELSE << >>]
    IN IF IsIn(keyed[event_type], handler) THEN keyed
       ELSE [keyed EXCEPT ![event_type] = <<handler>> \o @]

\* EventBus.subscribe
subscribe(subs, event_type, handler) ==
    LET keyed == [t \in DOMAIN subs \cup {event_type} |->
                     IF t \in DOMAIN subs THEN subs[t] ELSE << >>]
    IN IF IsIn(keyed[event_type], handler) THEN keyed
       ELSE [keyed EXCEPT ![event_type] = Append(@, handler)]

\* EventBus.unsubscribe
unsubscribe(subs, event_type, handler) ==
    IF event_type \in DOMAIN subs /\ IsIn(subs[event_type], handler)
    THEN [subs EXCEPT ![event_type] = Remove(@, handler)]
    ELSE subs

\* a publish that gives up at the first handler that raises
after_handler_error_stops(idx, outcome, n) ==
    IF outcome = "raised" THEN n ELSE idx + 1

\* the position of the loop over the n handlers after the handler at
\* position idx + 1 ended: the error of a handler is caught and printed,
\* the loop goes on (112-119)
after_handler(idx, outcome, n) == idx + 1

BusEvent(event_type, event_id) ==
    [event_type |-> event_type, event_id |-> event_id,
     source_agent |-> "publisher"]

\* a call of subscribe, unsubscribe, clear_history or reset as the log keeps
\* it: how many events had been published before it, and the event whose
\* delivery was in progress (0: none)
BusCall(op, event_type, handler) ==
    [op |-> op, event_type |-> event_type, handler |-> handler,
     published |-> Len(publishes),
     during |-> IF delivery.active THEN delivery.event.event_id ELSE 0]

\* subscribe(event_type, handler), called by a component
Subscribe(event_type, handler) ==
    /\ ~delivery.active
    /\ bus_calls < MaxBusCalls
    /\ bus_calls' = bus_calls + 1
    /\ subscribers' = subscribe(subscribers, event_type, handler)
    /\ bus_log' = Append(bus_log, BusCall("subscribe", event_type, handler))
    /\ UNCHANGED <<event_history, delivery, invoked, publishes, history_read>>
    /\ UNCHANGED beyond_bus

\* unsubscribe(event_type, handler), called by a component
Unsubscribe(event_type, handler) ==
    /\ ~delivery.active
    /\ bus_calls < MaxBusCalls
    /\ bus_calls' = bus_calls + 1
    /\ subscribers' = unsubscribe(subscribers, event_type, handler)
    /\ bus_log' = Append(bus_log, BusCall("unsubscribe", event_type, handler))
    /\ UNCHANGED <<event_history, delivery, invoked, publishes, history_read>>
    /\ UNCHANGED beyond_bus

\* publish(event) up to its loop: the event is recorded (104-106); with no
\* list for its type publish returns (108-109)
PublishStart(event_type) ==
    /\ ~delivery.active
    /\ bus_calls < MaxBusCalls
    /\ bus_calls' = bus_calls + 1
    /\ LET event == BusEvent(event_type, Len(publishes) + 1)
           listed == event_type \in DOMAIN subscribers
       IN /\ event_history' = publish(event_history, event)
          /\ delivery' = IF listed
                         THEN [active |-> TRUE, event |-> event, idx |-> 0]
                         ELSE IdleDelivery
          /\ publishes' =
                 Append(publishes,
                        [event |-> event,
                         handlers |-> IF listed THEN subscribers[event_type]
                                      ELSE << >>,
                         outcome |-> IF listed THEN "running" ELSE "returned"])
    /\ UNCHANGED <<subscribers, invoked, bus_log, history_read>>
    /\ UNCHANGED beyond_bus

\* one turn of the loop: the next handler of the list is called (112-119)
Invoke(outcome) ==
    /\ delivery.active
    /\ LET handlers == subscribers[delivery.event.event_type]
       IN /\ delivery.idx < Len(handlers)
          /\ invoked' = Append(invoked,
                               [event_id |-> delivery.event.event_id,
                                handler |-> handlers[delivery.idx + 1],
                                outcome |-> outcome])
          /\ delivery' = [delivery EXCEPT
                             !.idx = after_handler(@, outcome, Len(handlers))]
    /\ UNCHANGED <<event_history, subscribers, publishes, bus_calls, bus_log,
                   history_read>>
    /\ UNCHANGED beyond_bus

\* the loop is over: publish returns to the publisher
PublishReturn ==
    /\ delivery.active
    /\ delivery.idx >= Len(subscribers[delivery.event.event_type])
    /\ delivery' = IdleDelivery
    /\ publishes' = [publishes EXCEPT
                        ![delivery.event.event_id].outcome = "returned"]
    /\ UNCHANGED <<event_history, subscribers, invoked, bus_calls, bus_log,
                   history_read>>
    /\ UNCHANGED beyond_bus

NextBus ==
    \/ \E t \in EventTypes, h \in Handlers : Subscribe(t, h)
    \/ \E t \in EventTypes, h \in Handlers : Unsubscribe(t, h)
    \/ \E t \in EventTypes : PublishStart(t)
    \/ \E o \in Outcomes : Invoke(o)
    \/ PublishReturn

SpecBus == Init /\ [][NextBus]_vars

(***************************************************************************)
(* Handlers that call the bus: while it is called, a handler subscribes or *)
(* unsubscribes a handler (itself or another) for the type of the event    *)
(* being delivered.  publish loops over the list of the type itself, not   *)
(* over a copy (111-112): the loop takes the entry at its position in the  *)
(* list as the list then is.                                               *)
(***************************************************************************)
BusOps == {"subscribe", "unsubscribe"}

\* one turn of the loop: the next handler of the list is called, and before
\* it ends it makes one call of subscribe or unsubscribe
InvokeCalling(outcome, op, handler) ==
    /\ delivery.active
    /\ bus_calls < MaxBusCalls
    /\ bus_calls' = bus_calls + 1
    /\ LET t == delivery.event.event_type
           handlers == subscribers[t]
       IN /\ delivery.idx < Len(handlers)
          /\ invoked' = Append(invoked,
                               [event_id |-> delivery.event.event_id,
                                handler |-> handlers[delivery.idx + 1],
                                outcome |-> outcome])
          /\ subscribers' = IF op = "subscribe"
                            THEN subscribe(subscribers, t, handler)
                            ELSE unsubscribe(subscribers, t, handler)
          /\ bus_log' = Append(bus_log, BusCall(op, t, handler))
          /\ delivery' = [delivery EXCEPT
                             !.idx = after_handler(@, outcome, Len(handlers))]
    /\ UNCHANGED <<event_history, publishes, history_read>>
    /\ UNCHANGED beyond_bus

NextReentrant ==
    \/ NextBus
    \/ \E o \in Outcomes, op \in BusOps, h \in Handlers :
           InvokeCalling(o, op, h)

SpecReentrant == Init /\ [][NextReentrant]_vars

(***************************************************************************)
(* The history of the event bus: publish, get_history, clear_history and   *)
(* reset, on a bus that has published PriorPublishes events before.        *)
(***************************************************************************)
\* no event type given to get_history (event_type=None)
NoFilter == ""

\* list[start:] as Python slices: a negative start counts from the end
SliceFrom(list, start) ==
    LET from == IF start >= 0
                THEN (IF start > Len(list) THEN Len(list) ELSE start)
                ELSE (IF Len(list) + start < 0 THEN 0 ELSE Len(list) + start)
    IN SubSeq(list, from + 1, Len(list))

\* EventBus.get_history: the filter, then events[-limit:]
get_history(history, event_type, limit) ==
    LET events == IF event_type # NoFilter
                  THEN SelectSeq(history, LAMBDA e : e.event_type = event_type)
                  ELSE history
    IN SliceFrom(events, 0 - limit)

\* EventBus.clear_history
clear_history(history) == << >>

\* the type of the i-th event published before the calls begin
PriorType(i) == IF i % 2 = 0 THEN "DEPOSIT_COMPLETED" ELSE "AGENT_STARTED"

\* how many events were published before clear_history was called, in the
\* time before the calls begin (0: it was not called)
PriorClears == {0, 2}

\* The bus after c publishes, a clear_history when c > 0, and PriorPublishes
\* further publishes, none of them with a subscriber.
InitHistory ==
    /\ call = [c \in Slots |-> IdleCall]
    /\ calls_started = 0
    /\ payment_history = << >>
    /\ transfers = << >>
    /\ codec = IdleCodec
    /\ InitVaultAgent
    /\ InitStandalone
    /\ \E c \in PriorClears :
           /\ publishes = [i \in 1..(c + PriorPublishes) |->
                              [event |-> BusEvent(PriorType(i), i),
                               handlers |-> << >>,
                               outcome |-> "returned"]]
           /\ event_history = [i \in 1..PriorPublishes |->
                                  BusEvent(PriorType(c + i), c + i)]
           /\ bus_log = IF c = 0 THEN << >>
                        ELSE <<[op |-> "clear_history", event_type |-> "",
                                handler |-> "", published |-> c,
                                during |-> 0]>>
    /\ subscribers = [t \in {} |-> << >>]
    /\ delivery = IdleDelivery
    /\ invoked = << >>
    /\ bus_calls = 0
    /\ history_read = NoRead

\* clear_history()
ClearHistory ==
    /\ ~delivery.active
    /\ bus_calls < MaxBusCalls
    /\ bus_calls' = bus_calls + 1
    /\ event_history' = clear_history(event_history)
    /\ bus_log' = Append(bus_log, BusCall("clear_history", "", ""))
    /\ UNCHANGED <<subscribers, delivery, invoked, publishes, history_read>>
    /\ UNCHANGED <<call, calls_started, payment_history, transfers, codec,
                   vault_vars, standalone_vars>>

\* reset(): the subscribers and the history are cleared
Reset ==
    /\ ~delivery.active
    /\ bus_calls < MaxBusCalls
    /\ bus_calls' = bus_calls + 1
    /\ subscribers' = [t \in {} |-> << >>]
    /\ event_history' = clear_history(event_history)
    /\ bus_log' = Append(bus_log, BusCall("reset", "", ""))
    /\ UNCHANGED <<delivery, invoked, publishes, history_read>>
    /\ UNCHANGED <<call, calls_started, payment_history, transfers, codec,
                   vault_vars, standalone_vars>>

\* the limits get_history is called with (100 is its default)
ReadLimits == {0, 1, 2, 100}

\* get_history(event_type, limit)
GetHistory(event_type, limit) ==
    /\ ~delivery.active
    /\ bus_calls < MaxBusCalls
    /\ bus_calls' = bus_calls + 1
    /\ history_read' = [called |-> TRUE, event_type |-> event_type,
                        limit |-> limit, history |-> event_history,
                        events |-> get_history(event_history, event_type,
                                               limit)]
    /\ UNCHANGED <<event_history, subscribers, delivery, invoked, publishes,
                   bus_log>>
    /\ UNCHANGED <<call, calls_started, payment_history, transfers, codec,
                   vault_vars, standalone_vars>>

NextHistory ==
    \/ \E t \in EventTypes : PublishStart(t)
    \/ ClearHistory
    \/ Reset
    \/ \E t \in EventTypes \cup {NoFilter}, n \in ReadLimits : GetHistory(t, n)

SpecHistory == InitHistory /\ [][NextHistory]_vars

(***************************************************************************)
(* Vocabulary of the properties.                                           *)
(***************************************************************************)
Has(tr, label) == \E i \in DOMAIN tr : tr[i] = label

First(tr, label) ==
    CHOOSE i \in DOMAIN tr : tr[i] = label /\ \A j \in 1..(i - 1) : tr[j] # label

\* if b happened, a happened first
Before(tr, a, b) == Has(tr, b) => (Has(tr, a) /\ First(tr, a) < First(tr, b))

HistoryOf(n) == {i \in DOMAIN payment_history : payment_history[i].callNo = n}

TransfersOf(n) == {t \in DOMAIN transfers : transfers[t].callNo = n}

EventsOf(n, event_type) ==
    {i \in DOMAIN event_history :
        event_history[i].callNo = n /\ event_history[i].event_type = event_type}

Done(c) == call[c].pc = "done"

StillDenied ==
    Raised("X402PaymentError", "Payment was made but access still denied")

\* the handler saw its transfer complete and the retried request got a 402
PaidAndDenied(c) ==
    /\ Done(c)
    /\ Has(call[c].trace, "poll_complete")
    /\ call[c].fetched = Returned(402)

(***************************************************************************)
(* C1.  In one fetch_with_payment call, whatever the server and the rail   *)
(* answer (a second 402 included), create-transfer is sent at most once    *)
(* and payment history gets at most one entry of the call.                 *)
(***************************************************************************)
C1_AtMostOnePayment ==
    \A c \in Slots :
        /\ call[c].creates <= 1
        /\ Cardinality(TransfersOf(call[c].callNo)) <= 1
        /\ Cardinality(HistoryOf(call[c].callNo)) <= 1

\* a call that paid once and was answered 402 again
C1_Witness ==
    \E c \in Slots :
        /\ PaidAndDenied(c)
        /\ call[c].creates = 1
        /\ Cardinality(HistoryOf(call[c].callNo)) = 1

C3_CeilingBeforeRail ==
    \A c \in Slots :
        (/\ call[c].requirement.kind = "requirement"
         /\ call[c].requirement.amount > max_auto_payment) =>
            /\ Done(c)
            /\ call[c].fetched =
                   Raised("X402PaymentError", "exceeds max auto-payment")
            /\ call[c].result = call[c].fetched
            /\ call[c].creates = 0
            /\ call[c].polls = 0
            /\ TransfersOf(call[c].callNo) = {}
            /\ Len(call[c].requests) = 1
            /\ HistoryOf(call[c].callNo) = {}
            /\ EventsOf(call[c].callNo, "DEPOSIT_INITIATED") = {}

\* a call stopped by the ceiling
C3_Witness ==
    \E c \in Slots :
        /\ Done(c)
        /\ call[c].requirement.kind = "requirement"
        /\ call[c].requirement.amount = max_auto_payment + 1
        /\ call[c].result.kind = "raise"

(***************************************************************************)
(* C4.  Within one call the requirement is parsed, then the guardrail      *)
(* passes, then create-transfer is sent, then the transfer is seen         *)
(* complete, then the request is retried.  A create-transfer was sent only *)
(* for a parsed requirement within the ceiling, and a retried request only *)
(* once the call's own transfer is complete at the rail.                   *)
(***************************************************************************)
C4_Ordering ==
    \A c \in Slots :
        LET cl == call[c]
            tr == cl.trace
        IN /\ Before(tr, "parsed", "guard_ok")
           /\ Before(tr, "guard_ok", "create_sent")
           /\ Before(tr, "create_sent", "poll_complete")
           /\ Before(tr, "poll_complete", "request2")
           /\ cl.creates >= 1 =>
                 /\ cl.requirement.kind = "requirement"
                 /\ cl.requirement.amount <= max_auto_payment
           /\ Len(cl.requests) >= 2 =>
                 /\ cl.transfer_id \in TransfersOf(cl.callNo)
                 /\ transfers[cl.transfer_id].status = "complete"

\* a call that went through every stage and was served
C4_Witness ==
    \E c \in Slots :
        /\ Done(c)
        /\ Has(call[c].trace, "response2")
        /\ call[c].result = Returned(200)

(***************************************************************************)
(* C5.  A payment-history entry is appended after the rail reported the    *)
(* transfer complete and before the request is retried; every entry in     *)
(* history refers to a transfer that is complete at the rail.              *)
(***************************************************************************)
C5_HistoryOnlyConfirmed ==
    /\ \A i \in DOMAIN payment_history :
          LET h == payment_history[i]
          IN /\ h.transfer_id \in TransfersOf(h.callNo)
             /\ transfers[h.transfer_id].status = "complete"
    /\ \A c \in Slots :
          LET tr == call[c].trace
          IN /\ Before(tr, "poll_complete", "history_appended")
             /\ Before(tr, "history_appended", "request2")
             /\ Has(tr, "history_appended") <=> HistoryOf(call[c].callNo) # {}
             /\ Len(call[c].requests) >= 2 => HistoryOf(call[c].callNo) # {}

\* the entry is in history while the retried request is still unanswered
C5_Witness ==
    \E c \in Slots :
        /\ call[c].pc = "request2"
        /\ HistoryOf(call[c].callNo) # {}
        /\ payment_history[Len(payment_history)].transfer_id = call[c].transfer_id

\* every poll of the call's settlement wait was answered and none of the
\* answers was anything but pending
OnlyPendingSeen(c) ==
    /\ call[c].polls >= 1
    /\ call[c].pc # "polling"
    /\ ~Has(call[c].trace, "poll_complete")
    /\ ~Has(call[c].trace, "poll_failed")
    /\ ~Has(call[c].trace, "poll_error")

TimedOut == Raised("TimeoutError", "did not complete within timeout")

C7_FailedEndsWaitAtOnce ==
    \A c \in Slots :
        LET tr == call[c].trace
        IN /\ Has(tr, "poll_failed") =>
                 /\ Done(c)
                 /\ First(tr, "poll_failed") = Len(tr) - 1
                 /\ tr[Len(tr)] = "wait_raised_failed"
                 /\ call[c].fetched = Raised("CircleGatewayError", "Transfer failed")
                 /\ call[c].fetched.exc # TimedOut.exc
                 /\ transfers[call[c].transfer_id].polls = call[c].polls
           /\ (Done(c) /\ call[c].fetched.exc = "TimeoutError") =>
                 /\ ~Has(tr, "poll_failed")
                 /\ tr[Len(tr) - 1] = "poll_pending"

\* the transfer failed after the wait had already polled and slept
C7_Witness ==
    \E c \in Slots :
        /\ Has(call[c].trace, "poll_failed")
        /\ Has(call[c].trace, "sleep")
        /\ call[c].result.exc = "CircleGatewayError"

\* the rail rejected the call's create-transfer or reported it failed
RailRefused(c) ==
    /\ Done(c)
    /\ \/ Has(call[c].trace, "create_rejected")
       \/ Has(call[c].trace, "poll_failed")

(***************************************************************************)
(* C8.  When the rail rejects the create-transfer or reports the transfer  *)
(* failed, the call ends in an error, a payment-failed event of the        *)
(* attempt is on the event bus, and payment history has no entry of it.    *)
(***************************************************************************)
C8_FailureIsPublished ==
    \A c \in Slots :
        RailRefused(c) =>
            /\ call[c].result.kind = "raise"
            /\ EventsOf(call[c].callNo, "DEPOSIT_FAILED") # {}
            /\ HistoryOf(call[c].callNo) = {}

(***************************************************************************)
(* C9.  Every payment attempt publishes its payment-attempted event before *)
(* the create-transfer is sent, and once the call has ended every          *)
(* attempted event is matched by exactly one completed or failed event of  *)
(* the same attempt.                                                       *)
(***************************************************************************)
C9_AttemptIsClosed ==
    \A c \in Slots :
        LET n == call[c].callNo
            closing == EventsOf(n, "DEPOSIT_COMPLETED")
                           \cup EventsOf(n, "DEPOSIT_FAILED")
        IN /\ Before(call[c].trace, "attempt_published", "create_sent")
           /\ call[c].creates >= 1 =>
                 Cardinality(EventsOf(n, "DEPOSIT_INITIATED")) = 1
           /\ (Done(c) /\ EventsOf(n, "DEPOSIT_INITIATED") # {}) =>
                 /\ Cardinality(closing) = 1
                 /\ \A i \in EventsOf(n, "DEPOSIT_INITIATED"), j \in closing : i < j

(***************************************************************************)
(* C10.  When the payment-required response offers no usable amount and    *)
(* recipient in its headers or in its body, the call ends with a parse     *)
(* error: nothing is sent to the rail, no second HTTP request is made, and *)
(* payment history is unchanged.                                           *)
(***************************************************************************)
C10_UnusableDemandIsParseError ==
    \A c \in Slots :
        (call[c].auto_pay /\ call[c].offer = "unusable") =>
            /\ Done(c)
            /\ call[c].fetched.kind = "raise"
            /\ call[c].fetched.exc \in {"X402PaymentError", "ValueError"}
            /\ call[c].creates = 0
            /\ call[c].polls = 0
            /\ Len(call[c].requests) = 1
            /\ HistoryOf(call[c].callNo) = {}

\* the retried requests of a call that carry a proof
ProofRequests(c) == {i \in DOMAIN call[c].requests : call[c].requests[i].has_proof}

\* C11: every proof the handler issues states the amount of the requirement
\* that triggered the payment, names a transfer this call created, and is
\* issued only after a poll of that transfer was answered complete: the
\* transfer is complete at the rail and the answer precedes the retry.
C11_ProofMatchesRequirement ==
    \A c \in Slots : \A i \in ProofRequests(c) :
        LET p == call[c].requests[i].proof
        IN /\ call[c].requirement # NoRequirement
           /\ p.amount = call[c].requirement.amount
           /\ p.transfer_id \in TransfersOf(call[c].callNo)
           /\ p.transfer_id = call[c].transfer_id
           /\ transfers[p.transfer_id].status = "complete"
           /\ Has(call[c].trace, "poll_complete")
           /\ Before(call[c].trace, "poll_complete", "request2")
           /\ Before(call[c].trace, "wait_returned", "request2")

C11_Witness ==
    \E c \in Slots : \E i \in ProofRequests(c) :
        /\ call[c].requests[i].proof.amount = max_auto_payment
        /\ call[c].polls > 1

\* the happy path: a usable demand within the ceiling, the rail settled the
\* transfer complete with a transaction hash, the retry answered 200
HappyPath(c) ==
    /\ Done(c)
    /\ call[c].auto_pay
    /\ call[c].offer = "usable"
    /\ call[c].requirement # NoRequirement
    /\ ~ExceedsMax(call[c].requirement.amount)
    /\ call[c].transfer_id \in DOMAIN transfers
    /\ transfers[call[c].transfer_id].status = "complete"
    /\ transfers[call[c].transfer_id].hasHash
    /\ Len(call[c].requests) = 2
    /\ Has(call[c].trace, "response2")
    /\ call[c].fetched.kind = "return"
    /\ call[c].fetched.status = 200

\* C12: on the happy path the retried request carries the rail's hash in
\* X-Payment-TxHash and a proof token, the call returns the 200 response,
\* and the payment history, empty when the call started, holds exactly one
\* entry and a total spent equal to the required amount.
C12_HappyPath ==
    \A c \in Slots :
        HappyPath(c) =>
            LET tid == call[c].transfer_id
                retry == call[c].requests[2]
            IN /\ retry.has_proof
               /\ retry.tx_hash = [kind |-> "rail", id |-> tid]
               /\ retry.proof.tx_hash = retry.tx_hash
               /\ retry.proof.transfer_id = tid
               /\ ~call[c].requests[1].has_proof
               /\ call[c].result = Returned(200)
               /\ Len(get_payment_history(payment_history)) = 1
               /\ payment_history[1].transfer_id = tid
               /\ get_total_spent(payment_history) = call[c].requirement.amount

C12_Witness ==
    \E c \in Slots :
        /\ HappyPath(c)
        /\ call[c].requirement.amount = max_auto_payment
        /\ get_total_spent(payment_history) = max_auto_payment

\* a == b of two floats: nan equals nothing, itself included
FloatEq(a, b) == a.tag = "num" /\ b.tag = "num" /\ a.val = b.val

\* p == q of two proofs, field for field
ProofEq(p, q) ==
    /\ p.transfer_id = q.transfer_id
    /\ p.tx_hash = q.tx_hash
    /\ FloatEq(p.amount, q.amount)
    /\ p.currency = q.currency
    /\ p.payer_address = q.payer_address
    /\ p.timestamp = q.timestamp

\* from_header was applied to what to_header made of the proof
RoundTrip == codec.pc = "decoded" /\ codec.origin = "to_header"

\* C13 as stated: for every PaymentProof p, decode(encode(p)) equals p field
\* for field.
C13_Original ==
    RoundTrip => (codec.decoded.ok /\ ProofEq(codec.decoded.proof, codec.proof))

\* C13: for every PaymentProof p, decode(encode(p)) succeeds and has the
\* transfer_id, tx_hash, currency, payer_address and timestamp of p; its
\* amount equals p's when p's amount is a number, and is nan (which equals
\* nothing) when p's amount is nan.
C13_RoundTrip ==
    RoundTrip =>
        LET p == codec.proof
            q == codec.decoded.proof
        IN /\ codec.decoded.ok
           /\ q.transfer_id = p.transfer_id
           /\ q.tx_hash = p.tx_hash
           /\ q.currency = p.currency
           /\ q.payer_address = p.payer_address
           /\ q.timestamp = p.timestamp
           /\ q.amount.tag = p.amount.tag
           /\ p.amount.tag = "num" => ProofEq(q, p)

C13_Witness ==
    /\ RoundTrip
    /\ codec.proof.amount = Num(-1)
    /\ codec.proof.timestamp.microsecond # 0
    /\ ProofEq(codec.decoded.proof, codec.proof)

\* the tokens to_header produces for the proofs of the model
Encodings == {to_header(p) : p \in Proofs}

\* verify_payment_proof was applied to the token
Verified == codec.pc = "verified"

\* C14: for every header value that is not the encoding of a complete proof
\* (not valid base64, not valid JSON, truncated, or missing a required
\* field), verify_payment_proof returns (invalid, none).
C14_MalformedIsInvalidNone ==
    (Verified /\ codec.header \notin Encodings) =>
        codec.verdict = [is_valid |-> FALSE, proof |-> NoneProof]

\* amount >= 99% of expected, of a float and a whole expected amount
AtLeast99Percent(a, e) == a.tag = "num" /\ a.val * 100 >= e * 99

\* C15: for every well-formed token and every expected amount,
\* verify_payment_proof reports valid exactly when the decoded amount is at
\* least 99% of the expected amount, and returns the decoded proof either way.
C15_ValidIffWithinTolerance ==
    (Verified /\ from_header(codec.header).ok) =>
        /\ codec.verdict.proof = from_header(codec.header).proof
        /\ codec.verdict.is_valid <=>
               AtLeast99Percent(from_header(codec.header).proof.amount,
                                codec.expected)

(***************************************************************************)
(* Vocabulary of the properties of the vault agent.                        *)
(***************************************************************************)
\* the log lines at which an action of that name completed without error
CompletedAt(action) ==
    {i \in DOMAIN vault_log :
        vault_log[i].action = action /\ vault_log[i].step = "completed"}

\* the log lines at which an action was called: let through, or rejected
IsCall(e) == e.step \notin {"completed", "failed"}

\* a completion of the same action less than a cooldown before line j
RecentSuccess(j) ==
    \E k \in 1..(j - 1) :
        /\ k \in CompletedAt(vault_log[j].action)
        /\ vault_log[j].t - vault_log[k].t < cooldown_seconds

\* C16: the cooldown map changes only in the step in which a guarded
\* operation ends without error, and then only by the stamp of that action;
\* a step in which a guarded action ends with an error (guardrail rejection
\* or ledger error) leaves it unchanged; and no call is rejected for
\* cooldown unless the same action completed less than a cooldown before,
\* so a retry right after a failure is not.
C16_CooldownOnlyAfterSuccess ==
    [][/\ last_action_time' # last_action_time =>
              \E s \in Tasks :
                  /\ vault[s].pc = "ledger"
                  /\ vault'[s].pc = "done"
                  /\ vault'[s].result.kind = "return"
                  /\ last_action_time' =
                         update_cooldown(last_action_time, vault[s].action, now)
       /\ \A s \in Tasks :
              (/\ vault[s].pc # "done"
               /\ vault'[s].pc = "done"
               /\ vault'[s].result.kind = "raise")
                  => last_action_time' = last_action_time
       /\ \A j \in DOMAIN vault_log' :
              vault_log'[j].step = "in cooldown" =>
                  \E k \in 1..(j - 1) :
                      /\ vault_log'[k].action = vault_log'[j].action
                      /\ vault_log'[k].step = "completed"
                      /\ vault_log'[j].t - vault_log'[k].t < cooldown_seconds
      ]_vars

\* a deposit failed at the ledger and the retry made at once was let through
C16_Witness ==
    \E i, j \in DOMAIN vault_log :
        /\ i < j
        /\ vault_log[i].action = "deposit" /\ vault_log[i].step = "failed"
        /\ vault_log[j].action = "deposit" /\ vault_log[j].step = "passed"
        /\ vault_log[j].t = vault_log[i].t
        /\ "deposit" \notin DOMAIN last_action_time

DepositSucceeded == CompletedAt("deposit") # {}

\* the log line of the last deposit that completed
LastDeposit ==
    CHOOSE i \in CompletedAt("deposit") : \A j \in CompletedAt("deposit") : j <= i

\* the time at which the task of log line i passed its cooldown check
AdmittedAt(i) ==
    LET j == CHOOSE j \in 1..i :
                 /\ vault_log[j].task = vault_log[i].task
                 /\ vault_log[j].step = "passed"
    IN vault_log[j].t

\* C17 as stated: after a deposit admitted at t0 that succeeded, a check
\* returns true exactly from t0 + cooldown_seconds on.
C17_Original ==
    DepositSucceeded =>
        (check_cooldown(last_action_time, "deposit", now)
            <=> now >= AdmittedAt(LastDeposit) + cooldown_seconds)

\* C17: after a deposit that succeeded, completing at time t1, a check
\* returns true exactly from t1 + cooldown_seconds on (absent another
\* successful deposit in between), and so do the checks deposits made.
C17_CooldownFromCompletion ==
    DepositSucceeded =>
        /\ check_cooldown(last_action_time, "deposit", now)
               <=> now >= vault_log[LastDeposit].t + cooldown_seconds
        /\ \A j \in DOMAIN vault_log :
               (/\ j > LastDeposit
                /\ vault_log[j].action = "deposit"
                /\ vault_log[j].step \in {"passed", "in cooldown"})
                   => (vault_log[j].step = "passed"
                         <=> vault_log[j].t >=
                                 vault_log[LastDeposit].t + cooldown_seconds)

\* a deposit took time to complete, and one made a cooldown after it had
\* completed was let through
C17_Witness ==
    /\ DepositSucceeded
    /\ vault_log[LastDeposit].t > AdmittedAt(LastDeposit)
    /\ \E j \in DOMAIN vault_log :
           /\ j > LastDeposit
           /\ vault_log[j].action = "deposit"
           /\ vault_log[j].step = "passed"
           /\ vault_log[j].t = vault_log[LastDeposit].t + cooldown_seconds

\* what the guardrails must reject: no positive amount, an amount above the
\* ceiling of the action, or the action completed less than a cooldown ago
MustReject(action, amount) ==
    \/ amount <= 0
    \/ action = "deposit" /\ amount > max_deposit_amount
    \/ action = "withdraw" /\ amount > max_withdraw_amount
    \/ \E k \in CompletedAt(action) : now - vault_log[k].t < cooldown_seconds

\* C18: a deposit or withdraw that must be rejected ends at once with
\* ValueError, in a step that publishes no event and leaves the balances
\* and the cooldown map as they were.
C18_RejectedBeforeAnyEffect ==
    [][\A s \in Tasks, action \in {"deposit", "withdraw"},
          amount \in VaultAmounts :
           (VaultCall(s, action, amount) /\ MustReject(action, amount)) =>
               /\ vault'[s].pc = "done"
               /\ vault'[s].result.kind = "raise"
               /\ vault'[s].result.exc = "ValueError"
               /\ event_history' = event_history
               /\ demo_balance' = demo_balance
               /\ demo_usdc_balance' = demo_usdc_balance
               /\ last_action_time' = last_action_time
      ]_vars

\* a deposit completed and the next one was rejected for cooldown, with the
\* two events of the first as the only ones published
C18_Witness ==
    /\ \E j \in DOMAIN vault_log :
           /\ vault_log[j].action = "deposit"
           /\ vault_log[j].step = "in cooldown"
           /\ vault_log[j].amount = 400
    /\ Len(event_history) = 2
    /\ demo_balance = to_usdc_units(600)

\* C19: a call with a lawful amount is let through whenever no action of
\* its name has completed less than a cooldown before, another one being
\* in flight or not; and a call that was let through runs its ledger
\* operation when it resumes, whatever was stamped meanwhile.
C19_CheckReadsOnlyCompletions ==
    /\ \A j \in DOMAIN vault_log :
           (/\ IsCall(vault_log[j])
            /\ \/ vault_log[j].action = "compound"
               \/ /\ vault_log[j].amount > 0
                  /\ vault_log[j].action = "deposit"
                        => vault_log[j].amount <= max_deposit_amount
                  /\ vault_log[j].action = "withdraw"
                        => vault_log[j].amount <= max_withdraw_amount
            /\ ~RecentSuccess(j))
               => vault_log[j].step = "passed"
    /\ \A s \in Tasks :
           (/\ vault[s].pc = "done"
            /\ \E j \in DOMAIN vault_log :
                   vault_log[j].task = s /\ vault_log[j].step = "passed")
               => \E k \in DOMAIN vault_log :
                      /\ vault_log[k].task = s
                      /\ vault_log[k].step \in {"completed", "failed"}

\* two deposits passed the check before either completed, and both
\* completed within one cooldown window
C19_Witness ==
    /\ Len(vault_log) = 4
    /\ \A i \in 1..4 : vault_log[i].action = "deposit"
    /\ vault_log[1].step = "passed" /\ vault_log[2].step = "passed"
    /\ vault_log[3].step = "completed" /\ vault_log[4].step = "completed"
    /\ vault_log[1].task # vault_log[2].task
    /\ vault_log[4].t - vault_log[3].t < cooldown_seconds
    /\ demo_balance = to_usdc_units(800)

(***************************************************************************)
(* Vocabulary of the properties of the event bus.                          *)
(***************************************************************************)
\* the handler calls made for the event with that id, in order
InvokedFor(event_id) ==
    SelectSeq(invoked, LAMBDA c : c.event_id = event_id)

HandlersOf(calls) == [i \in DOMAIN calls |-> calls[i].handler]

\* C20: when a handler raised during a publish that has ended, the publish
\* returned to the publisher, every handler of the list was called once, in
\* the order of the list, those after the one that raised included, and the
\* event is in the history; no publish ends in any other way.
C20_HandlerErrorIsIsolated ==
    /\ \A e \in DOMAIN publishes :
           (publishes[e].outcome # "running"
            /\ \E i \in DOMAIN invoked :
                   invoked[i].event_id = e /\ invoked[i].outcome = "raised")
               => /\ publishes[e].outcome = "returned"
                  /\ HandlersOf(InvokedFor(e)) = publishes[e].handlers
                  /\ \E i \in DOMAIN event_history :
                         event_history[i] = publishes[e].event
    /\ \A e \in DOMAIN publishes :
           publishes[e].outcome = "running" <=>
               (delivery.active /\ delivery.event.event_id = e)

\* the first of three handlers raised, the other two were called, and the
\* publish returned
C20_Witness ==
    \E e \in DOMAIN publishes :
        /\ publishes[e].outcome = "returned"
        /\ Len(publishes[e].handlers) = 3
        /\ InvokedFor(e)[1].outcome = "raised"
        /\ HandlersOf(InvokedFor(e)) = publishes[e].handlers

\* the calls made on the bus before the publish of the event with that id
LogBefore(event_id) ==
    SelectSeq(bus_log, LAMBDA c : c.published < event_id)

\* The registration of handler h for type t that is in effect after the
\* calls of log: the position of the first subscribe(t, h) made since the
\* last unsubscribe(t, h); 0 when h is not subscribed to t.
Registration(log, t, h) ==
    LET unsubs == {i \in DOMAIN log : /\ log[i].op = "unsubscribe"
                                      /\ log[i].event_type = t
                                      /\ log[i].handler = h}
        subs == {i \in DOMAIN log : /\ log[i].op = "subscribe"
                                    /\ log[i].event_type = t
                                    /\ log[i].handler = h
                                    /\ \A j \in unsubs : j < i}
    IN IF subs = {} THEN 0
       ELSE CHOOSE i \in subs : \A j \in subs : i <= j

\* list holds the handlers registered for t after the calls of log, each
\* once, in the order of their registrations
InRegistrationOrder(list, log, t) ==
    /\ \A h \in Handlers : Registration(log, t, h) > 0 <=> IsIn(list, h)
    /\ \A i, j \in DOMAIN list :
           i < j => Registration(log, t, list[i]) < Registration(log, t, list[j])

\* C21: whatever calls of subscribe and unsubscribe came before it, a publish
\* that has returned called the handlers then registered for the type of its
\* event, each once, in the order of their registrations in effect, and no
\* handler registered for other types only.
C21_RegistrationOrder ==
    \A e \in DOMAIN publishes :
        publishes[e].outcome = "returned" =>
            InRegistrationOrder(HandlersOf(InvokedFor(e)), LogBefore(e),
                                publishes[e].event.event_type)

\* a publish called two handlers, the second of which had been the first
\* to subscribe: it was unsubscribed and subscribed again in between
C21_Witness ==
    \E e \in DOMAIN publishes :
        /\ publishes[e].outcome = "returned"
        /\ Len(InvokedFor(e)) = 2
        /\ \E i, j \in DOMAIN LogBefore(e) :
               /\ i < j
               /\ LogBefore(e)[i].op = "subscribe"
               /\ LogBefore(e)[i].handler = InvokedFor(e)[2].handler
               /\ LogBefore(e)[i].event_type = publishes[e].event.event_type
               /\ LogBefore(e)[j].op = "subscribe"
               /\ LogBefore(e)[j].handler = InvokedFor(e)[1].handler
               /\ LogBefore(e)[j].event_type = publishes[e].event.event_type
               /\ Registration(LogBefore(e), publishes[e].event.event_type,
                               InvokedFor(e)[1].handler) = j

\* how many times the handler occurs in the list
Occurrences(list, h) == Cardinality({i \in DOMAIN list : list[i] = h})

\* the list of the type, empty when the bus keeps none
ListOf(t) == IF t \in DOMAIN subscribers THEN subscribers[t] ELSE << >>

\* C22: however many times a handler was subscribed to a type since it was
\* last unsubscribed from it, it is in the list of the type once, a publish
\* of the type calls it once, and after one unsubscribe it is in the list no
\* more.
C22_SubscribeIsIdempotent ==
    /\ \A t \in EventTypes, h \in Handlers :
           Occurrences(ListOf(t), h) =
               IF Registration(bus_log, t, h) > 0 THEN 1 ELSE 0
    /\ \A e \in DOMAIN publishes, h \in Handlers :
           publishes[e].outcome = "returned" =>
               Occurrences(HandlersOf(InvokedFor(e)), h) =
                   IF Registration(LogBefore(e),
                                   publishes[e].event.event_type, h) > 0
                   THEN 1 ELSE 0

\* a handler was subscribed twice in a row, a publish called it once, and
\* after one unsubscribe the list of the type is empty
C22_Witness ==
    /\ Len(bus_log) = 3
    /\ bus_log[1].op = "subscribe"
    /\ bus_log[2] = bus_log[1]
    /\ bus_log[3] = [bus_log[1] EXCEPT !.op = "unsubscribe", !.published = 1]
    /\ publishes[1].outcome = "returned"
    /\ publishes[1].event.event_type = bus_log[1].event_type
    /\ HandlersOf(InvokedFor(1)) = <<bus_log[1].handler>>
    /\ ListOf(bus_log[1].event_type) = << >>

(***************************************************************************)
(* Vocabulary of the properties of the history.                            *)
(***************************************************************************)
\* how many events had been published when the history was last cleared
LastClear ==
    LET clears == {i \in DOMAIN bus_log :
                      bus_log[i].op \in {"clear_history", "reset"}}
    IN IF clears = {} THEN 0
       ELSE bus_log[CHOOSE i \in clears : \A j \in clears : j <= i].published

\* the events of the k most recent publishes, in the order of the publishes
MostRecent(k) ==
    [i \in 1..k |-> publishes[Len(publishes) - k + i].event]

\* C23: the history holds at most 1000 events; it is the most recent
\* min(n, 1000) of the n events published since it was last cleared, in the
\* order of their publishes.
C23_HistoryIsMostRecent ==
    LET n == Len(publishes) - LastClear
    IN /\ Len(event_history) <= 1000
       /\ event_history = MostRecent(IF n < 1000 THEN n ELSE 1000)

\* more than 1000 events were published since the history was cleared
C23_Witness ==
    /\ LastClear > 0
    /\ Len(publishes) - LastClear > 1000
    /\ Len(event_history) = 1000

\* the events of the history read that pass the filter of the call
Matching ==
    SelectSeq(history_read.history,
              LAMBDA e : history_read.event_type = NoFilter
                         \/ e.event_type = history_read.event_type)

\* C24: get_history with a limit of 0 or more returns at most `limit`
\* events: the most recent ones of the history that pass the filter, in the
\* order of their publishes.
C24_ReadReturnsMostRecent ==
    history_read.called =>
        LET m == Len(Matching)
            k == IF history_read.limit < m THEN history_read.limit ELSE m
        IN /\ Len(history_read.events) <= history_read.limit
           /\ history_read.events = SubSeq(Matching, m - k + 1, m)

\* the handler was unsubscribed from the type of the event with that id
\* while the event was being delivered
UnsubscribedDuring(event_id, h) ==
    \E i \in DOMAIN bus_log :
        /\ bus_log[i].during = event_id
        /\ bus_log[i].op = "unsubscribe"
        /\ bus_log[i].handler = h

\* C28: a publish that has returned called once every handler that was in
\* the list of the type when the publish began and was not unsubscribed
\* while it went on, whatever calls of subscribe and unsubscribe the
\* handlers made during the delivery.
C28_DeliveryDespiteCalls ==
    \A e \in DOMAIN publishes :
        publishes[e].outcome = "returned" =>
            \A h \in Handlers :
                (IsIn(publishes[e].handlers, h) /\ ~UnsubscribedDuring(e, h))
                    => Occurrences(HandlersOf(InvokedFor(e)), h) = 1

(***************************************************************************)
(* Properties of the handler, continued.                                   *)
(***************************************************************************)
\* the call of slot c ended with that error of the parser
ParseFailed(cl, exc) ==
    /\ cl.pc = "done"
    /\ cl.fetched.kind = "raise"
    /\ cl.fetched.exc = exc
    /\ cl.creates = 0

\* C25: when the payment-required response has an X-Payment-Amount header,
\* the requirement is the amount and the address of the headers, whatever
\* the body says, and text that is no number there is an error (the body is
\* not tried); the body is used when there is no such header, and then
\* amount and recipient are the body's; no requirement takes one field from
\* the headers and the other from the body.
C25_HeadersOrBodyNeverBoth ==
    [][\A c \in Slots :
           (call[c].pc = "request1" /\ call[c].auto_pay) =>
               \A r \in Responses :
                   (Response1(c, r) /\ (r.status = 402 \/ r.marker)) =>
                       LET q == call'[c].requirement
                       IN /\ r.hAmount.tag = "num" =>
                                 /\ q.kind = "requirement"
                                 /\ q.amount = r.hAmount.val
                                 /\ q.recipient_address = r.hAddress
                          /\ r.hAmount.tag = "bad" =>
                                 ParseFailed(call'[c], "ValueError")
                          /\ (/\ r.hAmount.tag = "absent"
                              /\ r.body.isDict
                              /\ r.body.payment_required
                              /\ r.body.amount.tag = "num") =>
                                 /\ q.kind = "requirement"
                                 /\ q.amount = r.body.amount.val
                                 /\ q.recipient_address = r.body.recipient
                          /\ (r.hAmount.tag = "absent" /\ ~r.body.isDict) =>
                                 ParseFailed(call'[c], "X402PaymentError")
      ]_vars

\* a response had an amount header and no address header, and a body with
\* an amount and a recipient: the requirement sent to the rail has no
\* recipient
C25_Witness ==
    \E c \in Slots :
        /\ call[c].requirement.source = "headers"
        /\ call[c].requirement.recipient_address = ""
        /\ call[c].offer = "usable"
        /\ call[c].creates = 1

\* C26: the first response is taken as payment-required exactly when its
\* status is 402 or its marker header says true.  When it is, and auto_pay
\* is on, the call goes on to the payment or ends with an error; in every
\* other case fetch_with_payment returns that response after its one
\* request, and payment history, event history and the rail are as before.
\* A create-transfer is sent only by a call with auto_pay on whose first
\* response was payment-required.
C26_PaymentRequiredIffStatusOrMarker ==
    [][\A c \in Slots :
           call[c].pc = "request1" =>
               \A r \in Responses :
                   Response1(c, r) =>
                       IF (r.status = 402 \/ r.marker) /\ call[c].auto_pay
                       THEN \/ call'[c].pc = "creating"
                            \/ call'[c].fetched.kind = "raise"
                       ELSE /\ call'[c].pc = "done"
                            /\ call'[c].fetched = Returned(r.status)
                            /\ Len(call'[c].requests) = 1
                            /\ call'[c].creates = 0
                            /\ payment_history' = payment_history
                            /\ event_history' = event_history
                            /\ transfers' = transfers
      ]_vars

\* a call with auto_pay off got a payment-required response with a usable
\* demand and returned it
C26_Witness ==
    \E c \in Slots :
        /\ Done(c)
        /\ ~call[c].auto_pay
        /\ call[c].offer = "usable"
        /\ call[c].fetched = Returned(402)
        /\ Len(call[c].requests) = 1
        /\ payment_history = << >>
        /\ event_history = << >>

\* C27: every create-transfer the handler sends to the rail has an amount
\* above 0 and not above max_auto_payment, and a recipient address that is
\* not empty.
C27_OnlySoundTransfersReachRail ==
    \A c \in Slots :
        call[c].creates > 0 =>
            /\ call[c].requirement.amount > 0
            /\ call[c].requirement.amount <= max_auto_payment
            /\ call[c].requirement.recipient_address # ""

(***************************************************************************)
(* Properties of several calls on one handler.                             *)
(***************************************************************************)
\* the payment of the call in slot c has settled: the rail completed its
\* transfer and the wait of the call returned it
Settled(c) ==
    /\ call[c].transfer_id \in DOMAIN transfers
    /\ transfers[call[c].transfer_id].status = "complete"
    /\ Has(call[c].trace, "wait_returned")

\* the sum of the amounts the calls of the slots in S were asked for
RECURSIVE SumRequired(_)
SumRequired(S) ==
    IF S = {} THEN 0
    ELSE LET c == CHOOSE x \in S : TRUE
         IN Plus(call[c].requirement.amount, SumRequired(S \ {c}))

\* C29: however the calls interleave, a call whose payment has settled has
\* one entry in payment history, with its own transfer and amount, and a
\* call without a settled payment has none; once all calls are over the
\* history has as many entries as payments have settled and the total spent
\* is the sum of the amounts those calls were asked for.
C29_OneEntryPerSettledPayment ==
    /\ \A c \in Workers :
           IF Settled(c)
           THEN \E i \in DOMAIN payment_history :
                    /\ HistoryOf(call[c].callNo) = {i}
                    /\ payment_history[i].transfer_id = call[c].transfer_id
                    /\ payment_history[i].amount = call[c].requirement.amount
           ELSE HistoryOf(call[c].callNo) = {}
    /\ (\A c \in Workers : call[c].pc = "done") =>
           /\ Len(get_payment_history(payment_history)) =
                  Cardinality({c \in Workers : Settled(c)})
           /\ get_total_spent(payment_history) =
                  SumRequired({c \in Workers : Settled(c)})

\* two calls are over, both have paid, for different amounts, and the call
\* that began first was the second to record its payment
C29_Witness ==
    /\ \A c \in Workers : call[c].pc = "done" /\ Settled(c)
    /\ Len(payment_history) = 2
    /\ payment_history[1].callNo = 2
    /\ payment_history[2].callNo = 1
    /\ payment_history[1].amount # payment_history[2].amount
    /\ payment_history[1].amount # nan
    /\ payment_history[2].amount # nan

\* a <= b on floats: false when either is nan
Le(a, b) == a # nan /\ b # nan /\ a <= b

\* C30: after any number n of calls, every entry of payment history has an
\* amount of at most max_auto_payment, and the total spent is at most n
\* times max_auto_payment.
C30_SpendIsBounded ==
    /\ \A i \in DOMAIN payment_history :
           Le(payment_history[i].amount, max_auto_payment)
    /\ Le(get_total_spent(payment_history), calls_started * max_auto_payment)

\* the sum of the amounts of the entries of the history at the positions in
\* S, taken in any order
RECURSIVE SumOfEntries(_, _)
SumOfEntries(history, S) ==
    IF S = {} THEN 0
    ELSE LET i == CHOOSE x \in S : \A y \in S : y <= x
         IN Plus(SumOfEntries(history, S \ {i}), history[i].amount)

\* C31: whatever the handler does, the entries payment history had are still
\* there afterwards, unchanged and in their order, so that its length never
\* goes down; and get_total_spent is the sum of the amounts of the entries
\* the history then has.
C31_HistoryIsAppendOnly ==
    [][/\ Len(payment_history') >= Len(payment_history)
       /\ SubSeq(payment_history', 1, Len(payment_history)) = payment_history
       /\ get_total_spent(payment_history') =
              SumOfEntries(payment_history', DOMAIN payment_history')
      ]_vars

\* two payments are in the history and both calls are over
C31_Witness ==
    /\ Len(payment_history) = 2
    /\ get_total_spent(payment_history) = max_auto_payment + 1
    /\ \A c \in Workers : call[c].pc = "done"

(***************************************************************************)
(* Properties of the retried request.                                      *)
(***************************************************************************)
ProofHeaders == {"X-Payment-Proof", "X-Payment-TxHash"}

\* the retried request is the first one again but for its headers, and its
\* headers are those in `kept` as they were, and the two proof headers
SameButProof(first, retry, kept) ==
    /\ retry.method = first.method
    /\ retry.url = first.url
    /\ retry.json_data = first.json_data
    /\ DOMAIN retry.headers = DOMAIN first.headers \cup ProofHeaders
    /\ \A n \in kept : retry.headers[n] = first.headers[n]

\* the hash header is the hash in the proof sent and in the history entry
HashesAgree(c, retry) ==
    /\ retry.headers["X-Payment-Proof"].kind = "proof"
    /\ retry.headers["X-Payment-TxHash"] =
           HeaderHash(retry.headers["X-Payment-Proof"].proof.tx_hash)
    /\ \E i \in DOMAIN payment_history :
           /\ HistoryOf(call[c].callNo) = {i}
           /\ HeaderHash(payment_history[i].tx_hash) =
                  retry.headers["X-Payment-TxHash"]

\* C32 as stated: the retried request is the original one with every header
\* of the original as it was, plus the two proof headers; the hash header
\* is the hash of the proof and of the history entry; the caller's mapping
\* is as the caller passed it.
C32_Original ==
    \A c \in Slots :
        Len(call[c].requests) = 2 =>
            /\ SameButProof(call[c].requests[1], call[c].requests[2],
                            DOMAIN call[c].requests[1].headers)
            /\ HashesAgree(c, call[c].requests[2])
            /\ call[c].caller_headers = call[c].args.headers

\* C32: the retried request is the original one with every header of the
\* original that is not one of the two proof headers as it was, and the two
\* proof headers set to the new proof and its hash (a proof header the
\* caller passed is replaced); the hash header is the hash of the proof and
\* of the history entry; the caller's mapping is as the caller passed it.
C32_RetryIsOriginalPlusProof ==
    \A c \in Slots :
        /\ Len(call[c].requests) = 2 =>
               /\ SameButProof(call[c].requests[1], call[c].requests[2],
                               DOMAIN call[c].requests[1].headers
                                   \ ProofHeaders)
               /\ HashesAgree(c, call[c].requests[2])
        /\ call[c].caller_headers = call[c].args.headers
        /\ call[c].pc # "idle" =>
               call[c].requests[1].headers = call[c].args.headers.map

\* a caller passed an Accept header and the token of an earlier payment;
\* the request was retried with the new proof
C32_Witness ==
    \E c \in Slots :
        /\ Done(c)
        /\ Len(call[c].requests) = 2
        /\ DOMAIN call[c].args.headers.map = {"Accept", "X-Payment-Proof"}
        /\ call[c].requests[2].headers["Accept"] =
               HeaderText("application/json")
        /\ call[c].requests[2].headers["X-Payment-Proof"].kind = "proof"

(***************************************************************************)
(* Properties of the settlement wait.                                      *)
(***************************************************************************)
\* the wait ended as the last poll's answer and the time gone say
WaitEndedRight ==
    wait.pc = "done" =>
        /\ wait.polls >= 1
        /\ \/ wait.outcome = "return" /\ wait.status = "complete"
           \/ wait.outcome = "raise_failed" /\ wait.status = "failed"
           \/ /\ wait.outcome = "raise_timeout"
              /\ wait.status = "pending"
              /\ wait.elapsed >= wait.timeout

EventsOfTask(s) ==
    LET Mine(e) == e.source_agent = "VaultAgent" /\ e.task = s
        mine == SelectSeq(event_history, Mine)
    IN [i \in DOMAIN mine |-> mine[i].event_type]

\* task s passed its guardrails
PassedGuardrails(s) ==
    \E i \in DOMAIN vault_log :
        vault_log[i].task = s /\ vault_log[i].step = "passed"

CompletedTypes ==
    {"DEPOSIT_COMPLETED", "WITHDRAW_COMPLETED", "COMPOUND_COMPLETED"}

FailedTypes == {"DEPOSIT_FAILED", "WITHDRAW_FAILED", "COMPOUND_FAILED"}

\* C34: a vault action that passed its guardrails has published X_INITIATED
\* when its ledger operation starts, and when it has ended it has published
\* after it exactly one of X_COMPLETED (it returned, the cooldown stamped)
\* and X_FAILED (it raised the error); an action that did not pass has
\* published nothing.
C34_InitiatedThenOneOutcome ==
    \A s \in Tasks :
        LET a == vault[s].action
            events == EventsOfTask(s)
        IN /\ ~PassedGuardrails(s) => events = << >>
           /\ vault[s].pc = "ledger" =>
                  /\ PassedGuardrails(s)
                  /\ events = <<EventName(a, "initiated")>>
           /\ vault[s].pc = "done" /\ PassedGuardrails(s) =>
                  \/ /\ vault[s].result.kind = "return"
                     /\ events = <<EventName(a, "initiated"),
                                   EventName(a, "completed")>>
                     /\ events[2] \in CompletedTypes
                     /\ a \in DOMAIN last_action_time
                  \/ /\ vault[s].result.kind = "raise"
                     /\ events = <<EventName(a, "initiated"),
                                   EventName(a, "failed")>>
                     /\ events[2] \in FailedTypes

\* two deposits passed their guardrails; one completed, the other failed
C34_Witness ==
    \E s, t \in Tasks :
        /\ EventsOfTask(s) = <<"DEPOSIT_INITIATED", "DEPOSIT_COMPLETED">>
        /\ EventsOfTask(t) = <<"DEPOSIT_INITIATED", "DEPOSIT_FAILED">>
        /\ vault[t].result.kind = "raise"

\* C35: in demo mode the USDC balance and the share balance are never
\* negative; a deposit or withdraw that ends leaves their sum as it was;
\* one that fails for insufficient balance leaves both as they were.
C35_DemoBalancesSound ==
    [][/\ demo_balance' >= 0
       /\ demo_usdc_balance' >= 0
       /\ \A s \in Tasks :
              /\ vault[s].pc = "ledger"
              /\ vault'[s].pc = "done"
              /\ vault[s].action \in {"deposit", "withdraw"}
              => /\ demo_balance' + demo_usdc_balance' =
                        demo_balance + demo_usdc_balance
                 /\ vault'[s].result.kind = "raise" =>
                        /\ demo_balance' = demo_balance
                        /\ demo_usdc_balance' = demo_usdc_balance]_vars

\* two deposits were in their ledger operation at once; the one that ended
\* first took the balance the other needed, which failed
C35_Witness ==
    \E s, t \in Tasks :
        /\ Len(vault_log) = 4
        /\ vault_log[1].step = "passed" /\ vault_log[2].step = "passed"
        /\ vault_log[3] = LogEntry(s, "deposit", 600, "completed", vault_log[3].t)
        /\ vault_log[4] = LogEntry(t, "deposit", 600, "failed", vault_log[4].t)
        /\ demo_usdc_balance = 400 * usdc_unit
        /\ demo_balance = 600 * usdc_unit

(***************************************************************************)
(* Properties of the agent lifecycle.                                      *)
(***************************************************************************)
\* C36: every start-to-stop cycle publishes one AGENT_STARTED and one
\* AGENT_STOPPED, however start and stop are called: the lifecycle events
\* in the history alternate, beginning with AGENT_STARTED, and the agent
\* runs or is being stopped exactly when the last of them is AGENT_STARTED.
C36_OneStartedOneStoppedPerCycle ==
    /\ \A i \in DOMAIN event_history :
           event_history[i].event_type =
               IF i % 2 = 1 THEN "AGENT_STARTED" ELSE "AGENT_STOPPED"
    /\ agent.running <=> Len(event_history) % 2 = 1

(***************************************************************************)
(* Properties of the payment_made flag and of the expected recipient.      *)
(***************************************************************************)
\* C37: the payment_made flag of a fetch that returned is true exactly when
\* the call executed a payment, that is, when it added an entry to the
\* payment history.
C37_PaymentMadeIffPaid ==
    \A c \in Slots :
        (/\ Done(c)
         /\ call[c].entry = "fetch_with_payment"
         /\ call[c].result.kind = "return")
        => (payment_made(call[c].result.status, call[c].auto_pay)
                <=> HistoryOf(call[c].callNo) # {})

\* C38: a verification of the same token for the same amount with another
\* expected recipient has another result.
C38_RecipientDecides ==
    codec.pc = "verified" =>
        \A r \in Recipients \ {codec.recipient} :
            verify_payment_proof(codec.header, codec.expected, r).is_valid
                # codec.verdict.is_valid

(***************************************************************************)
(* Properties of the demo paywall.                                         *)
(***************************************************************************)
\* request i carried a token that verifies for the price
ValidProofAt(i) ==
    /\ paywall.log[i].token # << >>
    /\ paywall.log[i].is_valid

\* request i carried a tx hash that an earlier request's valid proof held
RecordedHashAt(i) ==
    /\ paywall.log[i].txhash # << >>
    /\ \E j \in 1..(i - 1) :
           /\ ValidProofAt(j)
           /\ paywall.log[j].proof.tx_hash = PyStr(paywall.log[i].txhash)

\* the answer is a 402 with the payment requirement in headers and body
IsPaymentDemand(answer) ==
    /\ answer.status = 402
    /\ answer.payment_required
    /\ answer.amount_paid = Num(payment_amount)
    /\ answer.headers["X-Payment-Required"].text = "true"
    /\ answer.headers["X-Payment-Amount"].chars =
           <<48, 46, 49, 48, 48, 48, 48, 48>>
    /\ answer.headers["X-Payment-Address"].text = PAYWALL_RECIPIENT
    /\ answer.headers["X-Payment-Currency"].text = "USDC"

\* C39: the paywall grants content to a request only if it carries a token
\* that verifies for the price or a tx hash recorded from such a token
\* before; any other request gets the 402 with the payment requirement;
\* the verdict is that of verify_payment_proof for the price.
C39_PaywallGrantsOnlyPaid ==
    \A i \in DOMAIN paywall.log :
        LET r == paywall.log[i]
        IN /\ r.answer.status = 200 => ValidProofAt(i) \/ RecordedHashAt(i)
           /\ ~(ValidProofAt(i) \/ RecordedHashAt(i)) =>
                  IsPaymentDemand(r.answer)
           /\ r.answer.status \in {200, 402}
           /\ i = Len(paywall.log) /\ r.token # << >> =>
                  LET verdict == verify_payment_proof(r.token, payment_amount,
                                                      PAYWALL_RECIPIENT)
                  IN r.is_valid = verdict.is_valid /\ r.proof = verdict.proof

\* a tx hash was refused, then presented with a valid proof, then accepted
\* on its own
C39_Witness ==
    /\ Len(paywall.log) = 3
    /\ paywall.log[1].token = << >> /\ paywall.log[1].txhash = Txt_0x1
    /\ paywall.log[1].answer.status = 402
    /\ ValidProofAt(2)
    /\ paywall.log[3].token = << >> /\ paywall.log[3].txhash = Txt_0x1
    /\ paywall.log[3].answer.granted_by = "tx_hash"

=============================================================================
